---- MODULE Spec2Model ----
(***************************************************************************)
(* Queue / playback state machine of the music bot, for one guild.         *)
(*                                                                         *)
(*   models/guild_state.py   GuildState (queue, current_song, loop_mode..) *)
(*   services/queue.py       QueueService (the only holder of GuildState)  *)
(*   services/player.py      PlayerService (play_next, seek, pause, ...)   *)
(*   cogs/music/commands.py  MusicCommands (commands, completion callback) *)
(*                                                                         *)
(* The voice client of discord.py is the transport: play() raises when a   *)
(* source is already playing, stop() ends the active source and its        *)
(* `after` callback is then handed to the event loop.  Coroutines run to   *)
(* their next network await (refresh_url, get_related_songs); sending a    *)
(* chat message is not a scheduling point of the model.                    *)
(***************************************************************************)
EXTENDS Integers, Sequences, FiniteSets, TLC

\* ------------------------------------------------------------- bounds
MaxSongs     == 2   \* track ids ever handed out (enqueued or recommended)
MaxBatch     == 2   \* tracks one play command may enqueue
MaxTime      == 2   \* clock ticks
TicksPerSecond == 2 \* resolution of the clock: time.time() is a float
MaxSeek      == 1   \* largest seek offset of the seek command, in seconds
MaxCallbacks == 1   \* completion callbacks waiting for the event loop
MaxListeners == 5   \* non-bot members in the voice channel
MainListeners == 4  \* listeners present in the playback specification
MaxRelated   == 1   \* tracks one get_related_songs call returns

\* config.py: VOTE_SKIP_THRESHOLD = 0.5, as the fraction ThresholdNum/ThresholdDen
ThresholdNum == 1
ThresholdDen == 2

Users     == {"u1", "u2"}
LoopModes == <<"off", "song", "queue">>
Filters   == {"off", "nightcore"}

\* A Song is [id, url]: url is Song.is_url_valid (a stream URL is present).
None == [id |-> 0, url |-> FALSE]
Song(i, u) == [id |-> i, url |-> u]

VARIABLES
    queue,                  \* GuildState.queue
    current_song,           \* GuildState.current_song (None when absent)
    loop_mode,              \* GuildState.loop_mode
    audio_filter,           \* GuildState.audio_filter
    autoplay_enabled,       \* GuildState.autoplay_enabled
    vote_skip_users,        \* GuildState.vote_skip_users
    song_start_time,        \* GuildState.song_start_time: <<>> is None, <<t>> a timestamp
    now_playing_message_id, \* GuildState.now_playing_message_id is set
    seeking,                \* guild_id in PlayerService._seeking_guilds
    vc,                     \* voice client: "none", "idle", "playing", "paused"
    callbacks,              \* `after` callbacks scheduled on the loop, not yet run
    cmd,                    \* a command coroutine suspended in refresh_url
    cb,                     \* a _play_next_async coroutine suspended in an await
    now,                    \* time.time()
    nextId,                 \* next unused track id
    listeners,              \* non-bot members in the bot's voice channel
    last,                   \* history: the last operation, its argument and result
    e2e,                    \* history: the enqueue-then-play-through scenario
    snap,                   \* history: the state a queue operation was applied to
    votes_cast_on,          \* history: the tracks the votes held were cast on
    stopped,                \* history: stop was issued and nothing enqueued since
    states,                 \* QueueService._states, for every guild
    db,                     \* RedisManager: the client and the keys it holds
    seeking_guilds,         \* PlayerService._seeking_guilds
    svc,                    \* history: the last QueueService call and what it met
    saved,                  \* history: the queues held when the process stopped
    shelf,                  \* history: what the last save of each playlist was given
    ops,                    \* number of service calls made
    cache,                  \* SimpleCache._cache: the entries, oldest first
    cache_last,             \* history: the last cache call and the uses of the keys
    pl,                     \* a playlist being loaded and the songs given to add_many
    voice                   \* the voice connection and PlayerService._disconnecting_guilds

vars == <<queue, current_song, loop_mode, audio_filter, autoplay_enabled,
          vote_skip_users, song_start_time, now_playing_message_id, seeking, vc,
          callbacks, cmd, cb, now, nextId, listeners, last, e2e, snap, votes_cast_on,
          stopped, states, db, seeking_guilds, svc, saved, shelf, ops,
          cache, cache_last, pl, voice>>

Active(v) == v \in {"playing", "paused"}

Other == [op |-> "other", arg |-> 0, ret |-> FALSE, out |-> "", prev |-> FALSE,
          forced |-> FALSE, user |-> ""]

IdleCmd == [pc |-> "idle", song |-> None, arg |-> 0]
IdleCb  == [pc |-> "idle", song |-> None, skipped |-> FALSE]
NotClean == [clean |-> FALSE, started |-> <<>>, done |-> FALSE]
NoSnap  == [queue |-> <<>>, current |-> None, loop |-> "off", seeking |-> FALSE,
            vc |-> "none", votes |-> {}, song |-> None]

\* ------------------------------------------------ GuildState / QueueService

\* Variant of get_next_song that takes the most recently added song.
get_next_song_newest(q, cur, loop) ==
    IF q = <<>>
    THEN [song |-> None, queue |-> q]
    ELSE [song |-> q[Len(q)], queue |-> SubSeq(q, 1, Len(q) - 1)]

\* Variant of get_next_song that never puts the current song back.
get_next_song_norequeue(q, cur, loop) ==
    IF loop = "song" /\ cur # None
    THEN [song |-> cur, queue |-> q]
    ELSE IF q = <<>>
    THEN [song |-> None, queue |-> q]
    ELSE [song |-> Head(q), queue |-> Tail(q)]

\* Variant of get_next_song whose empty-queue return ignores the loop mode.
get_next_song_emptyfirst(q, cur, loop) ==
    IF q = <<>>
    THEN [song |-> None, queue |-> q]
    ELSE IF loop = "song" /\ cur # None
    THEN [song |-> cur, queue |-> q]
    ELSE LET q1 == IF loop = "queue" /\ cur # None THEN Append(q, cur) ELSE q
         IN  [song |-> Head(q1), queue |-> Tail(q1)]

\* GuildState.get_next_song: the returned song and the queue it leaves.
get_next_song(q, cur, loop) ==
    IF q = <<>> /\ loop # "song"
    THEN [song |-> None, queue |-> q]
    ELSE IF loop = "song" /\ cur # None
    THEN [song |-> cur, queue |-> q]
    ELSE LET q1 == IF loop = "queue" /\ cur # None THEN Append(q, cur) ELSE q
         IN  IF q1 # <<>>
             THEN [song |-> Head(q1), queue |-> Tail(q1)]
             ELSE [song |-> None, queue |-> q1]

\* QueueService.get_next: current_song is overwritten only by a song.
get_next(q, cur, loop) ==
    LET r == get_next_song(q, cur, loop)
    IN  [song    |-> r.song,
         queue   |-> r.queue,
         current |-> IF r.song # None THEN r.song ELSE cur]

\* Variant of cycle_loop_mode that goes round the other way.
cycle_loop_mode_back(mode) ==
    LET idx == IF \E i \in 1..Len(LoopModes) : LoopModes[i] = mode
               THEN CHOOSE i \in 1..Len(LoopModes) : LoopModes[i] = mode
               ELSE 1
    IN  LoopModes[((idx + Len(LoopModes) - 2) % Len(LoopModes)) + 1]

\* QueueService.cycle_loop_mode
cycle_loop_mode(mode) ==
    LET idx == IF \E i \in 1..Len(LoopModes) : LoopModes[i] = mode
               THEN CHOOSE i \in 1..Len(LoopModes) : LoopModes[i] = mode
               ELSE 1
    IN  LoopModes[(idx % Len(LoopModes)) + 1]

\* Variant of add_skip_vote that counts every vote.
add_skip_vote_again(votes, user) ==
    [ok |-> TRUE, votes |-> votes \cup {user}]

\* QueueService.add_skip_vote: [ok, votes]
add_skip_vote(votes, user) ==
    IF user \in votes
    THEN [ok |-> FALSE, votes |-> votes]
    ELSE [ok |-> TRUE, votes |-> votes \cup {user}]

\* MusicCommands.skip: required = max(1, int(len(listeners) * VOTE_SKIP_THRESHOLD));
\* int() truncates the product toward zero.
RequiredVotes(n) ==
    LET t == (n * ThresholdNum) \div ThresholdDen
    IN  IF t > 1 THEN t ELSE 1

\* ----------------------------------------------------------- PlayerService

\* The fields PlayerService reads and writes, as one record; out is how the
\* call ended: "ok" (playback started), "fail" (play_song returned False),
\* "empty" (no next song), "seekskip" (the seeking flag was consumed),
\* "suspend" (awaiting refresh_url for song).
PState ==
    [queue |-> queue, current |-> current_song, seeking |-> seeking, vc |-> vc,
     start |-> song_start_time, votes |-> vote_skip_users, cbs |-> callbacks,
     out |-> "", song |-> None]

\* extractor.refresh_url on success: the same track with a stream URL.
Refreshed(song) == [song EXCEPT !.url = TRUE]

\* VoiceClient.stop(): an active source ends and its after callback is scheduled.
VcStop(st) ==
    IF Active(st.vc)
    THEN [st EXCEPT !.vc = "idle", !.cbs = st.cbs + 1]
    ELSE st

\* play_song, the try block: build the source, vc.play, start time, reset votes.
\* fail: building the source raises.  vc.play raises when the client is gone or
\* a source is already playing.
StartSong(st, song, fail, t) ==
    IF fail \/ st.vc \in {"none", "playing"}
    THEN [st EXCEPT !.out = "fail"]
    ELSE [st EXCEPT !.vc = "playing", !.start = <<t>>, !.votes = {}, !.out = "ok"]

\* play_song up to its first await.
play_song(st, song, fail, t) ==
    IF st.vc = "none"
    THEN [st EXCEPT !.out = "fail"]
    ELSE IF ~song.url
    THEN [st EXCEPT !.out = "suspend", !.song = song]
    ELSE StartSong(st, song, fail, t)

\* play_song after refresh_url returned (ok: a song came back).
AfterRefresh(st, song, ok, fail, t) ==
    IF ~ok
    THEN [st EXCEPT !.out = "fail"]
    ELSE StartSong([st EXCEPT !.current = Refreshed(song)], Refreshed(song), fail, t)

\* Variant of play_next without the set_current(None) of the empty case.
play_next_keep(st, loop, fail, t) ==
    IF st.seeking
    THEN [st EXCEPT !.seeking = FALSE, !.out = "seekskip"]
    ELSE LET g == get_next(st.queue, st.current, loop)
         IN  IF g.song = None
             THEN [st EXCEPT !.out = "empty"]
             ELSE play_song([st EXCEPT !.queue = g.queue, !.current = g.current],
                            g.song, fail, t)

\* PlayerService.play_next up to its first await.
play_next(st, loop, fail, t) ==
    IF st.seeking
    THEN [st EXCEPT !.seeking = FALSE, !.out = "seekskip"]
    ELSE LET g == get_next(st.queue, st.current, loop)
         IN  IF g.song = None
             THEN [st EXCEPT !.current = None, !.out = "empty"]
             ELSE play_song([st EXCEPT !.queue = g.queue, !.current = g.current],
                            g.song, fail, t)

\* Variant of skip that also forgets the current song.
skip_forget(st) ==
    IF st.vc # "none" THEN VcStop([st EXCEPT !.votes = {}, !.current = None]) ELSE st

\* PlayerService.skip
skip(st) ==
    IF st.vc # "none" THEN VcStop([st EXCEPT !.votes = {}]) ELSE st

\* Variant of SeekRestart that records the restart time as the start time.
SeekRestart_now(st, s, fail, t) ==
    IF fail
    THEN [st EXCEPT !.seeking = FALSE, !.out = "fail"]
    ELSE IF st.vc = "none"
    THEN [st EXCEPT !.seeking = FALSE, !.start = <<t>>, !.out = "fail"]
    ELSE LET a == [st EXCEPT !.seeking = TRUE, !.start = <<t>>]
             b == VcStop(a)
         IN  [b EXCEPT !.vc = "playing", !.out = "ok"]

\* PlayerService.seek, the try block (s seconds into song).
SeekRestart(st, s, fail, t) ==
    IF fail
    THEN [st EXCEPT !.seeking = FALSE, !.out = "fail"]
    ELSE IF st.vc = "none"
    THEN [st EXCEPT !.seeking = FALSE, !.start = <<t - s * TicksPerSecond>>,
                    !.out = "fail"]
    ELSE LET a == [st EXCEPT !.seeking = TRUE, !.start = <<t - s * TicksPerSecond>>]
             b == VcStop(a)
         IN  [b EXCEPT !.vc = "playing", !.out = "ok"]

\* PlayerService.seek up to its first await.
seek(st, s, fail, t) ==
    IF st.vc = "none" \/ st.current = None
    THEN [st EXCEPT !.out = "fail"]
    ELSE IF ~st.current.url
    THEN [st EXCEPT !.out = "suspend", !.song = st.current]
    ELSE SeekRestart(st, s, fail, t)

\* PlayerService.seek after refresh_url returned.
SeekAfterRefresh(st, song, s, ok, fail, t) ==
    IF ~ok
    THEN [st EXCEPT !.out = "fail"]
    ELSE SeekRestart([st EXCEPT !.current = Refreshed(song)], s, fail, t)

\* Variant of get_current_position that keeps the fraction of a second.
get_current_position_exact(start, t) ==
    IF start # <<>> THEN t - start[1] ELSE 0

\* PlayerService.get_current_position: int(time.time() - start_time), whole
\* seconds.
get_current_position(start, t) ==
    IF start # <<>> THEN (t - start[1]) \div TicksPerSecond ELSE 0

\* Writes the PlayerService fields back.
SetP(r) ==
    /\ queue' = r.queue
    /\ current_song' = r.current
    /\ seeking' = r.seeking
    /\ vc' = r.vc
    /\ song_start_time' = r.start
    /\ vote_skip_users' = r.votes
    /\ callbacks' = r.cbs

\* ------------------------------------------- QueueService over its guilds

Guilds == {"g1", "g2"}
PlaylistNames == {"mix"}

\* Song with the member who requested it ("" is None).
Requested(i, u, r) == [id |-> i, url |-> u, requester |-> r]

\* Variant of to_dict that also leaves the stream URL out.
to_dict_nourl(song) == [id |-> song.id, url |-> FALSE]

\* Song.to_dict: every field but the requester.
to_dict(song) == [id |-> song.id, url |-> song.url]

\* Song.from_dict: the requester is left at its default.
from_dict(d) == [id |-> d.id, url |-> d.url, requester |-> ""]

to_dicts(q) == [i \in 1..Len(q) |-> to_dict(q[i])]
from_dicts(data) == [i \in 1..Len(data) |-> from_dict(data[i])]

\* A guild without an entry in _states, and GuildState(guild_id).
NoState ==
    [present |-> FALSE, queue |-> <<>>, current_song |-> None, loop_mode |-> "off",
     volume |-> 100, audio_filter |-> "off", vote_skip_users |-> {},
     song_start_time |-> <<>>,
     is_247_mode |-> FALSE, autoplay_enabled |-> FALSE,
     loaded_247 |-> FALSE, loaded_autoplay |-> FALSE]
NewState == [NoState EXCEPT !.present = TRUE]

\* Redis without the key queue:<guild>, and the settings of an absent
\* settings:<guild> key (the defaults of the RedisManager getters).
NoKey == [key |-> FALSE, data |-> <<>>]
NoSettings ==
    [loop_mode |-> "off", volume |-> 100, audio_filter |-> "off",
     is_247_mode |-> FALSE, autoplay_enabled |-> FALSE, request_channel_id |-> 0]

\* RedisManager.load_queue
load_queue(d, g) ==
    IF ~d.client THEN <<>>
    ELSE IF d.queue[g].key THEN d.queue[g].data ELSE <<>>

\* RedisManager.get_settings with the getters' defaults.
get_settings(d, g) == IF ~d.client THEN NoSettings ELSE d.settings[g]

\* RedisManager.save_queue
save_queue(d, g, data) ==
    IF ~d.client THEN d
    ELSE [d EXCEPT !.queue[g] = [key |-> TRUE, data |-> data],
                   !.writes = @ + 1]

\* Variant of clear_queue that leaves the key in place.
clear_queue_keep(d, g) == d

\* RedisManager.clear_queue
clear_queue(d, g) ==
    IF ~d.client THEN d
    ELSE [d EXCEPT !.queue[g] = NoKey, !.writes = @ + 1]

\* RedisManager.set_setting
set_setting(d, g, key, value) ==
    IF ~d.client THEN d
    ELSE [d EXCEPT !.settings[g][key] = value, !.writes = @ + 1]

\* Variant of _load_from_redis that leaves the settings at their defaults.
load_from_redis_queue_only(d, g) ==
    LET data == load_queue(d, g)
    IN  [NewState EXCEPT !.queue = IF data # <<>> THEN from_dicts(data) ELSE <<>>]

\* QueueService._load_from_redis: the GuildState built from the store.
load_from_redis(d, g) ==
    LET data == load_queue(d, g)
        set  == get_settings(d, g)
    IN  [NewState EXCEPT !.queue = IF data # <<>> THEN from_dicts(data) ELSE <<>>,
                         !.volume = set.volume,
                         !.loop_mode = set.loop_mode,
                         !.audio_filter = set.audio_filter]

\* Variant of get_state that loads from Redis on every call.
get_state_reload(st, d, g) == [st EXCEPT ![g] = load_from_redis(d, g)]

\* QueueService.get_state: _states with the guild's state created if absent.
get_state(st, d, g) ==
    IF st[g].present THEN st ELSE [st EXCEPT ![g] = load_from_redis(d, g)]

\* QueueService._save_queue_to_redis
save_queue_to_redis(st, d, g) ==
    IF st[g].present THEN save_queue(d, g, to_dicts(st[g].queue)) ELSE d

\* Variant of add_to_queue that puts the song at the head.
add_to_queue_head(q, song) == [queue |-> <<song>> \o q, position |-> 1]

\* GuildState.add_to_queue: [queue, position]
add_to_queue(q, song) == [queue |-> Append(q, song), position |-> Len(q) + 1]

\* The loop of QueueService.add_many: add_to_queue for each song in turn.
RECURSIVE add_each(_, _)
add_each(q, songs) ==
    IF songs = <<>> THEN q
    ELSE add_each(add_to_queue(q, Head(songs)).queue, Tail(songs))

\* Variant of remove_from_queue that counts a negative index from the end,
\* as list.pop does.
remove_from_queue_wrap(q, index) ==
    LET i == IF index < 0 THEN index + Len(q) ELSE index
    IN  IF 0 <= i /\ i < Len(q)
        THEN [song |-> q[i + 1],
              queue |-> SubSeq(q, 1, i) \o SubSeq(q, i + 2, Len(q))]
        ELSE [song |-> None, queue |-> q]

\* GuildState.remove_from_queue (0-based index): [song, queue]
remove_from_queue(q, index) ==
    IF 0 <= index /\ index < Len(q)
    THEN [song |-> q[index + 1],
          queue |-> SubSeq(q, 1, index) \o SubSeq(q, index + 2, Len(q))]
    ELSE [song |-> None, queue |-> q]

\* GuildState.move_song (0-based positions): [ok, queue]
move_song(q, from_pos, to_pos) ==
    IF ~(0 <= from_pos /\ from_pos < Len(q) /\ 0 <= to_pos /\ to_pos < Len(q))
    THEN [ok |-> FALSE, queue |-> q]
    ELSE LET song == q[from_pos + 1]
             rest == remove_from_queue(q, from_pos).queue
         IN  [ok |-> TRUE,
              queue |-> SubSeq(rest, 1, to_pos) \o <<song>>
                        \o SubSeq(rest, to_pos + 1, Len(rest))]

\* --------------------------------------------------------- event handlers

\* No Redis client, no guild state, no service call made.
NoDb ==
    [client |-> FALSE, queue |-> [g \in Guilds |-> NoKey],
     settings |-> [g \in Guilds |-> NoSettings],
     playlists |-> [g \in Guilds |-> [n \in PlaylistNames |-> NoKey]],
     writes |-> 0]
NoShelf == [saved |-> FALSE, client |-> FALSE, songs |-> <<>>]
NoCall ==
    [op |-> "none", guild |-> "", a |-> 0, b |-> 0, song |-> None, ok |-> FALSE,
     ret |-> <<>>, created |-> FALSE, before |-> [g \in Guilds |-> NoState], pre |-> NoState,
     predb |-> NoDb, preseeking |-> {},
     saved |-> [held |-> FALSE, client |-> FALSE, queue |-> <<>>]]
\* ------------------------------------- SimpleCache, the in-memory fallback

MaxSize      == 2   \* SimpleCache.max_size
MaxCacheTime == 3   \* clock ticks while the cache is used
MaxTtl       == 1   \* largest ttl given to set, in seconds

CacheKeys   == 1..(MaxSize + 1)
CacheValues == {1, 2}

\* ttl arguments of set; 0 stands for None (`if ttl` takes both as no ttl).
Ttls == 0..MaxTtl

\* An entry of the OrderedDict: expiry is <<>> for None.
Entry(k, v, e) == [key |-> k, value |-> v, expiry |-> e]

KeySet(c) == {c[i].key : i \in 1..Len(c)}

\* The position of key k in c, 0 when absent.
Find(c, k) ==
    IF k \in KeySet(c) THEN CHOOSE i \in 1..Len(c) : c[i].key = k ELSE 0

\* del self._cache[k]
Without(c, k) == SelectSeq(c, LAMBDA e : e.key # k)

\* `expiry and time.time() > expiry`
Expired(e, t) == e.expiry # <<>> /\ t > e.expiry[1]

\* Variant of cache_get that leaves a hit where it is.
cache_get_still(c, k, t) ==
    LET i == Find(c, k)
    IN  IF i = 0
        THEN [cache |-> c, ret |-> <<>>, miss |-> TRUE]
        ELSE IF Expired(c[i], t)
        THEN [cache |-> Without(c, k), ret |-> <<>>, miss |-> TRUE]
        ELSE [cache |-> c, ret |-> <<c[i].value>>, miss |-> FALSE]

\* Variant of cache_get that hands out an entry whatever its expiry.
cache_get_stale(c, k, t) ==
    LET i == Find(c, k)
    IN  IF i = 0
        THEN [cache |-> c, ret |-> <<>>, miss |-> TRUE]
        ELSE [cache |-> Append(Without(c, k), c[i]), ret |-> <<c[i].value>>,
              miss |-> FALSE]

\* SimpleCache.get without Redis: [cache, ret, miss]; ret is <<>> for None.
cache_get(c, k, t) ==
    LET i == Find(c, k)
    IN  IF i = 0
        THEN [cache |-> c, ret |-> <<>>, miss |-> TRUE]
        ELSE IF Expired(c[i], t)
        THEN [cache |-> Without(c, k), ret |-> <<>>, miss |-> TRUE]
        ELSE [cache |-> Append(Without(c, k), c[i]), ret |-> <<c[i].value>>,
              miss |-> FALSE]

\* SimpleCache.set without Redis.
cache_set(c, k, v, ttl, t) ==
    LET e == Entry(k, v, IF ttl # 0 THEN <<t + ttl * TicksPerSecond>> ELSE <<>>)
    IN  IF k \in KeySet(c)
        THEN Append(Without(c, k), e)
        ELSE IF Len(c) >= MaxSize
        THEN Append(Tail(c), e)
        ELSE Append(c, e)

\* SimpleCache.delete without Redis: [cache, ret]
cache_delete(c, k) ==
    [cache |-> Without(c, k), ret |-> k \in KeySet(c)]

\* SimpleCache.cleanup_expired without Redis.
cleanup_expired(c, t) == SelectSeq(c, LAMBDA e : ~Expired(e, t))

\* ------------------------------------- ExtractorService: playlist loading

PlaylistCap == 3   \* max_playlist_items of extract
LoadMoreAt  == 2   \* number of loaded songs from which play loads the rest
MaxEntries  == 6   \* longest playlist

\* A playlist as the resolver lists it: entry i is a video, or None for a
\* hidden one.
Hidden == 0
Playlists ==
    UNION {{[i \in 1..n |-> IF i \in h THEN Hidden ELSE i] : h \in SUBSET (1..n)} :
           n \in 0..MaxEntries}

\* The songs of the entries that are not None, in order.
Songs(entries) == SelectSeq(entries, LAMBDA e : e # Hidden)

\* ExtractorService.extract for a playlist URL: playlistend = max_playlist_items.
extract(entries, max_playlist_items) ==
    Songs(SubSeq(entries, 1, IF Len(entries) < max_playlist_items
                             THEN Len(entries) ELSE max_playlist_items))

\* ExtractorService.extract_remaining_playlist: playliststart = start_index + 1.
extract_remaining_playlist(entries, start_index) ==
    Songs(SubSeq(entries, start_index + 1, Len(entries)))

\* No playlist requested yet.
NoPlaylist == [pc |-> "idle", entries |-> <<>>, count |-> 0, added |-> <<>>]

\* The variables of the components beside playback and the queue service.
Aside == <<cache, cache_last, pl, voice>>

\* No voice client, no disconnect asked for, no voice state update on its way.
NoVoice == [client |-> FALSE, marker |-> FALSE, events |-> <<>>, pc |-> "idle"]

\* No cache call made yet.
NoCacheCall ==
    [op |-> "none", key |-> 0, ret |-> <<>>, miss |-> FALSE, had |-> FALSE,
     full |-> FALSE, lru |-> 0, dropped |-> {}, order |-> <<>>,
     born |-> [k \in CacheKeys |-> <<>>]]

\* SimpleCache.__init__
AsideIdle ==
    /\ cache = <<>>
    /\ cache_last = NoCacheCall
    /\ pl = NoPlaylist
    /\ voice = NoVoice

ServiceIdle ==
    /\ AsideIdle
    /\ states = [g \in Guilds |-> NoState]
    /\ db = NoDb
    /\ seeking_guilds = {}
    /\ svc = NoCall
    /\ saved = [g \in Guilds |-> [held |-> FALSE, client |-> FALSE, queue |-> <<>>]]
    /\ shelf = [g \in Guilds |-> [n \in PlaylistNames |-> NoShelf]]
    /\ ops = 0

\* The history of the votes held: a vote is cast on the track that is current
\* when add_skip_vote takes it, and the history ends when the votes are reset.
VotesCast ==
    votes_cast_on' =
        IF vote_skip_users' = {} THEN {}
        ELSE IF vote_skip_users' \subseteq vote_skip_users THEN votes_cast_on
        ELSE votes_cast_on \cup {current_song.id}

\* MusicCommands.stop and MusicControlView.stop_button: QueueService.clear,
\* then PlayerService.skip.
StopStep ==
    /\ LET r == skip([PState EXCEPT !.queue = <<>>, !.current = None])
       IN  /\ r.cbs <= MaxCallbacks
           /\ SetP(r)
    /\ e2e' = NotClean
    /\ UNCHANGED <<loop_mode, audio_filter, autoplay_enabled, now_playing_message_id,
                   cmd, cb, now, nextId>>

\* The history of the stop command: it ends when a track is enqueued.
StopNoted ==
    stopped' = IF nextId' > nextId THEN FALSE
               ELSE IF StopStep THEN TRUE
               ELSE stopped

\* What every handler of the playback specification leaves alone.
Frame ==
    /\ VotesCast
    /\ StopNoted
    /\ UNCHANGED <<listeners, last, snap, states, db, seeking_guilds, svc, saved, shelf, ops>>
    /\ UNCHANGED Aside

\* The scenario history after a play_next that ended r: still on the scenario
\* while every start succeeds; a start appends the started track, and done
\* records that play_next returned without a track.
Scenario(r) ==
    IF e2e.clean /\ r.out \in {"ok", "empty"}
    THEN [e2e EXCEPT !.started = IF r.out = "ok" THEN Append(@, r.current.id) ELSE @,
                     !.done = (r.out = "empty")]
    ELSE NotClean

\* MusicCommands.play: connect, extract n tracks (0: error or no results),
\* add / add_many, then play_next unless the client is playing or paused.
PlayCmd ==
    /\ cmd.pc = "idle"
    /\ \E connectOk \in BOOLEAN, n \in 0..MaxBatch, fail \in BOOLEAN :
        /\ nextId + n - 1 <= MaxSongs
        /\ \E urls \in [1..n -> BOOLEAN] :
            LET songs == [i \in 1..n |-> Song(nextId + i - 1, urls[i])]
                vc1   == IF vc = "none" THEN "idle" ELSE vc
                st1   == [PState EXCEPT !.vc = vc1, !.queue = queue \o songs]
                r     == IF n = 0 \/ Active(vc1)
                         THEN [st1 EXCEPT !.out = "queued"]
                         ELSE play_next(st1, loop_mode, fail, now)
            IN  IF vc = "none" /\ ~connectOk
                THEN UNCHANGED <<queue, current_song, seeking, vc, song_start_time,
                                    vote_skip_users, callbacks, cmd, nextId,
                                    now_playing_message_id, e2e>>
                ELSE /\ SetP(r)
                     /\ nextId' = nextId + n
                     /\ cmd' = IF r.out = "suspend"
                               THEN [pc |-> "play_refresh", song |-> r.song, arg |-> 0]
                               ELSE IdleCmd
                     /\ now_playing_message_id' =
                            IF r.out = "ok" THEN TRUE ELSE now_playing_message_id
                     /\ e2e' = IF /\ e2e.clean /\ e2e.started = <<>> /\ queue = <<>>
                                  /\ ~e2e.done
                                  /\ \A i \in 1..n : urls[i]
                                  /\ r.out \in {"ok", "queued"}
                               THEN [e2e EXCEPT !.started =
                                        IF r.out = "ok" THEN <<r.current.id>> ELSE @]
                               ELSE NotClean
    /\ UNCHANGED <<loop_mode, audio_filter, autoplay_enabled, cb, now>>
    /\ Frame

\* MusicCommands.play resumed when refresh_url returns inside play_song.
PlayRefreshStep(ok, fail) ==
    /\ cmd.pc = "play_refresh"
    /\ LET r == AfterRefresh(PState, cmd.song, ok, fail, now)
       IN  /\ SetP(r)
           /\ now_playing_message_id' =
                  IF r.out = "ok" THEN TRUE ELSE now_playing_message_id
    /\ cmd' = IdleCmd
    /\ e2e' = NotClean
    /\ UNCHANGED <<loop_mode, audio_filter, autoplay_enabled, cb, now, nextId>>

PlayRefreshDone ==
    /\ \E ok \in BOOLEAN, fail \in BOOLEAN : PlayRefreshStep(ok, fail)
    /\ Frame

\* Variant of TrackEnds whose callback runs play_next where it is called.
TrackEnds_inline ==
    /\ vc = "playing"
    /\ LET r == play_next([PState EXCEPT !.vc = "idle"], loop_mode, FALSE, now)
       IN  r.out # "suspend" /\ SetP(r)
    /\ UNCHANGED <<loop_mode, audio_filter, autoplay_enabled, now_playing_message_id,
                   cmd, cb, now, nextId, e2e>>
    /\ Frame

\* The transport finishes the source: the after callback (_after_play) hands
\* _play_next_async to the event loop.
TrackEnds ==
    /\ vc = "playing"
    /\ callbacks < MaxCallbacks
    /\ vc' = "idle"
    /\ callbacks' = callbacks + 1
    /\ UNCHANGED <<queue, current_song, loop_mode, audio_filter, autoplay_enabled,
                   vote_skip_users, song_start_time, now_playing_message_id, seeking,
                   cmd, cb, now, nextId, e2e>>
    /\ Frame

\* _play_next_async after a play_next that did not succeed: the autoplay
\* fallback awaits get_related_songs, otherwise the now-playing message is cleared.
CbFallback(r, skipped) ==
    IF autoplay_enabled /\ r.current # None
    THEN /\ cb' = [pc |-> "related", song |-> r.current, skipped |-> skipped]
         /\ UNCHANGED now_playing_message_id
    ELSE /\ cb' = IdleCb
         /\ now_playing_message_id' = FALSE

\* _play_next_async, from its start to its first await or its end.
CbRun ==
    /\ callbacks > 0
    /\ cb.pc = "idle"
    /\ \E fail \in BOOLEAN :
        LET r == play_next([PState EXCEPT !.cbs = callbacks - 1], loop_mode, fail, now)
        IN  /\ SetP(r)
            /\ CASE r.out = "ok" ->
                      cb' = IdleCb /\ UNCHANGED now_playing_message_id
                 [] r.out = "suspend" ->
                      /\ cb' = [pc |-> "refresh", song |-> r.song, skipped |-> FALSE]
                      /\ UNCHANGED now_playing_message_id
                 [] OTHER -> CbFallback(r, r.out = "seekskip")
            /\ e2e' = Scenario(r)
    /\ UNCHANGED <<loop_mode, audio_filter, autoplay_enabled, cmd, now, nextId>>
    /\ Frame

\* _play_next_async resumed when refresh_url returns inside the first play_next.
CbRefreshDone ==
    /\ cb.pc = "refresh"
    /\ \E ok \in BOOLEAN, fail \in BOOLEAN :
        LET r == AfterRefresh(PState, cb.song, ok, fail, now)
        IN  /\ SetP(r)
            /\ IF r.out = "ok"
               THEN cb' = IdleCb /\ UNCHANGED now_playing_message_id
               ELSE CbFallback(r, FALSE)
    /\ e2e' = NotClean
    /\ UNCHANGED <<loop_mode, audio_filter, autoplay_enabled, cmd, now, nextId>>
    /\ Frame

\* _play_next_async resumed when get_related_songs returns n tracks (search
\* results, with a stream URL or without): add_many and a second play_next.
CbRelatedDone ==
    /\ cb.pc = "related"
    /\ \E n \in 0..MaxRelated, fail \in BOOLEAN, url \in BOOLEAN :
        /\ nextId + n - 1 <= MaxSongs
        /\ LET rel == [i \in 1..n |-> Song(nextId + i - 1, url)]
               st1 == [PState EXCEPT !.queue = queue \o rel]
               r   == IF n = 0 THEN [st1 EXCEPT !.out = "norelated"]
                      ELSE play_next(st1, loop_mode, fail, now)
           IN  /\ SetP(r)
               /\ nextId' = nextId + n
               /\ cb' = IF r.out = "suspend"
                        THEN [pc |-> "refresh2", song |-> r.song, skipped |-> cb.skipped]
                        ELSE IdleCb
               /\ now_playing_message_id' =
                      IF r.out \in {"ok", "suspend"} THEN now_playing_message_id ELSE FALSE
    /\ e2e' = NotClean
    /\ UNCHANGED <<loop_mode, audio_filter, autoplay_enabled, cmd, now>>
    /\ Frame

\* _play_next_async resumed when refresh_url returns inside the second play_next.
CbRefresh2Done ==
    /\ cb.pc = "refresh2"
    /\ \E ok \in BOOLEAN, fail \in BOOLEAN :
        LET r == AfterRefresh(PState, cb.song, ok, fail, now)
        IN  /\ SetP(r)
            /\ now_playing_message_id' =
                   IF r.out = "ok" THEN now_playing_message_id ELSE FALSE
    /\ cb' = IdleCb
    /\ e2e' = NotClean
    /\ UNCHANGED <<loop_mode, audio_filter, autoplay_enabled, cmd, now, nextId>>
    /\ Frame

\* Variant of SkipResult that skips one vote before the required count.
SkipResult_early(u, privileged) ==
    LET required == RequiredVotes(listeners)
        v        == add_skip_vote(vote_skip_users, u)
        voted    == [PState EXCEPT !.votes = v.votes]
    IN  IF vc = "none" \/ ~Active(vc)
        THEN [PState EXCEPT !.out = "nothing"]
        ELSE IF privileged
        THEN [skip(PState) EXCEPT !.out = "forced"]
        ELSE IF ~v.ok
        THEN [PState EXCEPT !.out = "already"]
        ELSE IF Cardinality(v.votes) + 1 < required
        THEN [voted EXCEPT !.out = "voted"]
        ELSE [skip(voted) EXCEPT !.out = "skipped"]

\* MusicCommands.skip for user u; privileged: manage_channels or the requester
\* of the current song.  out: "nothing" (nothing to skip), "forced" (privileged
\* skip), "already" (duplicate vote), "voted" (votes below the required count),
\* "skipped" (vote passed).
SkipResult(u, privileged) ==
    LET required == RequiredVotes(listeners)
        v        == add_skip_vote(vote_skip_users, u)
        voted    == [PState EXCEPT !.votes = v.votes]
    IN  IF vc = "none" \/ ~Active(vc)
        THEN [PState EXCEPT !.out = "nothing"]
        ELSE IF privileged
        THEN [skip(PState) EXCEPT !.out = "forced"]
        ELSE IF ~v.ok
        THEN [PState EXCEPT !.out = "already"]
        ELSE IF Cardinality(v.votes) < required
        THEN [voted EXCEPT !.out = "voted"]
        ELSE [skip(voted) EXCEPT !.out = "skipped"]

SkipStep(u, privileged) ==
    /\ LET r == SkipResult(u, privileged)
       IN  /\ r.cbs <= MaxCallbacks
           /\ SetP(r)
    /\ e2e' = NotClean
    /\ UNCHANGED <<loop_mode, audio_filter, autoplay_enabled, now_playing_message_id,
                   cmd, cb, now, nextId>>

SkipCmd ==
    /\ \E u \in Users, privileged \in BOOLEAN : SkipStep(u, privileged)
    /\ Frame

\* MusicControlView.skip_button: PlayerService.skip without a vote.
SkipButton ==
    /\ LET r == skip(PState)
       IN  /\ r.cbs <= MaxCallbacks
           /\ SetP(r)
    /\ e2e' = NotClean
    /\ UNCHANGED <<loop_mode, audio_filter, autoplay_enabled, now_playing_message_id,
                   cmd, cb, now, nextId>>
    /\ Frame

StopCmd == StopStep /\ Frame

\* Variant of pause that does not ask the client whether it is playing.
pause_any(v) ==
    IF v # "none"
    THEN [ret |-> TRUE, vc |-> "paused"]
    ELSE [ret |-> FALSE, vc |-> v]

\* PlayerService.pause: [ret, vc]
pause(v) ==
    IF v # "none" /\ v = "playing"
    THEN [ret |-> TRUE, vc |-> "paused"]
    ELSE [ret |-> FALSE, vc |-> v]

\* PlayerService.resume: [ret, vc]
resume(v) ==
    IF v # "none" /\ v = "paused"
    THEN [ret |-> TRUE, vc |-> "playing"]
    ELSE [ret |-> FALSE, vc |-> v]

\* MusicCommands.pause
PauseStep ==
    /\ vc' = pause(vc).vc
    /\ e2e' = NotClean
    /\ UNCHANGED <<queue, current_song, loop_mode, audio_filter, autoplay_enabled,
                   vote_skip_users, song_start_time, now_playing_message_id, seeking,
                   callbacks, cmd, cb, now, nextId>>

PauseCmd == PauseStep /\ Frame

\* MusicCommands.resume
ResumeStep ==
    /\ vc' = resume(vc).vc
    /\ e2e' = NotClean
    /\ UNCHANGED <<queue, current_song, loop_mode, audio_filter, autoplay_enabled,
                   vote_skip_users, song_start_time, now_playing_message_id, seeking,
                   callbacks, cmd, cb, now, nextId>>

ResumeCmd == ResumeStep /\ Frame

\* MusicCommands.loop and MusicControlView.loop_button
LoopCmd ==
    /\ loop_mode' = cycle_loop_mode(loop_mode)
    /\ e2e' = NotClean
    /\ UNCHANGED <<queue, current_song, audio_filter, autoplay_enabled, vote_skip_users,
                   song_start_time, now_playing_message_id, seeking, vc, callbacks,
                   cmd, cb, now, nextId>>
    /\ Frame

\* MusicCommands.toggle_autoplay
AutoplayCmd ==
    /\ autoplay_enabled' = ~autoplay_enabled
    /\ UNCHANGED <<queue, current_song, loop_mode, audio_filter, vote_skip_users,
                   song_start_time, now_playing_message_id, seeking, vc, callbacks,
                   cmd, cb, now, nextId, e2e>>
    /\ Frame

\* MusicCommands.seek to s seconds (a timestamp within the song's duration).
SeekResult(s, fail) ==
    IF ~Active(vc)
    THEN [PState EXCEPT !.out = "nothing"]
    ELSE seek(PState, s, fail, now)

SeekStep(s, fail) ==
    /\ cmd.pc = "idle"
    /\ LET r == SeekResult(s, fail)
       IN  /\ r.cbs <= MaxCallbacks
           /\ SetP(r)
           /\ cmd' = IF r.out = "suspend"
                     THEN [pc |-> "seek_refresh", song |-> r.song, arg |-> s]
                     ELSE IdleCmd
    /\ e2e' = NotClean
    /\ UNCHANGED <<loop_mode, audio_filter, autoplay_enabled, now_playing_message_id,
                   cb, now, nextId>>

SeekCmd ==
    /\ \E s \in 0..MaxSeek, fail \in BOOLEAN : SeekStep(s, fail)
    /\ Frame

\* PlayerService.apply_filter up to its first await: set_filter, then seek to
\* the elapsed position when a start time is recorded.
apply_filter(st, start, fail, t) ==
    IF start = <<>>
    THEN [st EXCEPT !.out = "nostart"]
    ELSE seek(st, get_current_position(start, t), fail, t)

\* MusicCommands.filter_cmd for the filter f.
FilterStep(f, fail) ==
    /\ cmd.pc = "idle"
    /\ LET r == apply_filter(PState, song_start_time, fail, now)
       IN  /\ r.cbs <= MaxCallbacks
           /\ audio_filter' = f
           /\ SetP(r)
           /\ cmd' = IF r.out = "suspend"
                     THEN [pc |-> "seek_refresh", song |-> r.song,
                           arg |-> get_current_position(song_start_time, now)]
                     ELSE IdleCmd
    /\ e2e' = NotClean
    /\ UNCHANGED <<loop_mode, autoplay_enabled, now_playing_message_id, cb, now, nextId>>

FilterCmd ==
    /\ \E f \in Filters, fail \in BOOLEAN : FilterStep(f, fail)
    /\ Frame

\* PlayerService.seek resumed when refresh_url returns.
SeekRefreshStep(ok, fail) ==
    /\ cmd.pc = "seek_refresh"
    /\ LET r == SeekAfterRefresh(PState, cmd.song, cmd.arg, ok, fail, now)
       IN  /\ r.cbs <= MaxCallbacks
           /\ SetP(r)
    /\ cmd' = IdleCmd
    /\ e2e' = NotClean
    /\ UNCHANGED <<loop_mode, audio_filter, autoplay_enabled, now_playing_message_id,
                   cb, now, nextId>>

SeekRefreshDone ==
    /\ \E ok \in BOOLEAN, fail \in BOOLEAN : SeekRefreshStep(ok, fail)
    /\ Frame

\* QueueService.cleanup_guild: the GuildState is dropped; the next get_state
\* builds a default one (no Redis client here, so nothing is loaded into it).
Cleanup ==
    /\ queue' = <<>>
    /\ current_song' = None
    /\ loop_mode' = "off"
    /\ audio_filter' = "off"
    /\ autoplay_enabled' = FALSE
    /\ vote_skip_users' = {}
    /\ song_start_time' = <<>>
    /\ now_playing_message_id' = FALSE

\* MusicCommands.disconnect: PlayerService.disconnect leaves the voice channel
\* (ending an active source) and cleans the guild up.
DisconnectCmd ==
    /\ vc # "none"
    /\ callbacks + (IF Active(vc) THEN 1 ELSE 0) <= MaxCallbacks
    /\ vc' = "none"
    /\ callbacks' = callbacks + (IF Active(vc) THEN 1 ELSE 0)
    /\ Cleanup
    /\ e2e' = NotClean
    /\ UNCHANGED <<seeking, cmd, cb, now, nextId>>
    /\ Frame

\* on_voice_state_update for a disconnect the bot did not ask for.
VoiceLost ==
    /\ vc # "none"
    /\ callbacks + (IF Active(vc) THEN 1 ELSE 0) <= MaxCallbacks
    /\ vc' = "none"
    /\ callbacks' = callbacks + (IF Active(vc) THEN 1 ELSE 0)
    /\ Cleanup
    /\ e2e' = NotClean
    /\ UNCHANGED <<seeking, cmd, cb, now, nextId>>
    /\ Frame

\* time.time() advances.
Tick ==
    /\ now < MaxTime
    /\ now' = now + 1
    /\ UNCHANGED <<queue, current_song, loop_mode, audio_filter, autoplay_enabled,
                   vote_skip_users, song_start_time, now_playing_message_id, seeking,
                   vc, callbacks, cmd, cb, nextId, e2e>>
    /\ Frame

\* ---------------------------------------------- the playback specification

\* MusicCommands.__init__: no GuildState, no voice client, nothing scheduled.
Init ==
    /\ queue = <<>>
    /\ current_song = None
    /\ loop_mode = "off"
    /\ audio_filter = "off"
    /\ autoplay_enabled = FALSE
    /\ vote_skip_users = {}
    /\ song_start_time = <<>>
    /\ now_playing_message_id = FALSE
    /\ seeking = FALSE
    /\ vc = "none"
    /\ callbacks = 0
    /\ cmd = IdleCmd
    /\ cb = IdleCb
    /\ now = 0
    /\ nextId = 1
    /\ listeners = MainListeners
    /\ last = Other
    /\ e2e = [clean |-> TRUE, started |-> <<>>, done |-> FALSE]
    /\ snap = NoSnap
    /\ votes_cast_on = {}
    /\ stopped = FALSE
    /\ ServiceIdle

Next ==
    \/ PlayCmd
    \/ PlayRefreshDone
    \/ TrackEnds
    \/ CbRun
    \/ CbRefreshDone
    \/ CbRelatedDone
    \/ CbRefresh2Done
    \/ SkipCmd
    \/ SkipButton
    \/ StopCmd
    \/ PauseCmd
    \/ ResumeCmd
    \/ LoopCmd
    \/ AutoplayCmd
    \/ SeekCmd
    \/ FilterCmd
    \/ SeekRefreshDone
    \/ DisconnectCmd
    \/ VoiceLost

\* Every handler, with the clock standing still.
Spec == Init /\ [][Next]_vars

\* --------------------------------------------- the play-through specification

\* Tracks are enqueued by play commands and every playback runs to its end
\* while the clock advances: no command other than play is issued, so the loop
\* mode stays "off" and autoplay stays disabled.
PlaythroughNext ==
    \/ PlayCmd
    \/ PlayRefreshDone
    \/ TrackEnds
    \/ CbRun
    \/ CbRefreshDone
    \/ Tick

PlaythroughSpec == Init /\ [][PlaythroughNext]_vars

\* ------------------------------------------------ the filter specification

\* Filters applied during playback while the clock advances: tracks are
\* enqueued by play commands, playback is paused and resumed, autoplay is
\* toggled, and the completion callbacks run.  No source ends by itself and no
\* seek or skip command is issued, so every completion is that of a restart
\* made by apply_filter.
FilterNext ==
    \/ PlayCmd
    \/ PlayRefreshDone
    \/ PauseCmd
    \/ ResumeCmd
    \/ AutoplayCmd
    \/ FilterCmd
    \/ SeekRefreshDone
    \/ CbRun
    \/ CbRelatedDone
    \/ CbRefresh2Done
    \/ Tick

FilterSpec == Init /\ [][FilterNext]_vars

\* ------------------------------------------------- the cache specification

\* get, set, delete and cleanup_expired on one SimpleCache of a process without
\* Redis, while the clock advances.  cache_last records the call and its
\* result, whether the key was held and the cache full when it was made, the
\* key least recently used then, and the keys the call dropped; order lists the
\* keys held by their last use (a set, or a get that returned the value), least
\* recent first, and born the last set of every key held.

CacheFrame ==
    UNCHANGED <<queue, current_song, loop_mode, audio_filter, autoplay_enabled,
                vote_skip_users, song_start_time, now_playing_message_id, seeking,
                vc, callbacks, cmd, cb, nextId, listeners, last, e2e, snap,
                votes_cast_on, stopped, states, db, seeking_guilds, svc, saved,
                shelf, ops, pl, voice>>

\* Key k was used.
Used(order, k) == Append(SelectSeq(order, LAMBDA x : x # k), k)

CacheCalled(name, k, ret, miss, c2, order2, born2) ==
    /\ cache' = c2
    /\ cache_last' =
           [op |-> name, key |-> k, ret |-> ret, miss |-> miss,
            had |-> k \in KeySet(cache),
            full |-> Len(cache) >= MaxSize,
            lru |-> IF cache_last.order # <<>> THEN Head(cache_last.order) ELSE 0,
            dropped |-> KeySet(cache) \ KeySet(c2),
            order |-> SelectSeq(order2, LAMBDA x : x \in KeySet(c2)),
            born |-> [x \in CacheKeys |->
                        IF x \in KeySet(c2) THEN born2[x] ELSE <<>>]]
    /\ UNCHANGED now
    /\ CacheFrame

CacheGet(k) ==
    LET r == cache_get(cache, k, now)
    IN  CacheCalled("get", k, r.ret, r.miss, r.cache,
                    IF r.miss THEN cache_last.order ELSE Used(cache_last.order, k),
                    cache_last.born)

CacheSet(k, v, ttl) ==
    CacheCalled("set", k, <<>>, FALSE, cache_set(cache, k, v, ttl, now),
                Used(cache_last.order, k),
                [cache_last.born EXCEPT ![k] = <<[at |-> now, ttl |-> ttl, value |-> v]>>])

CacheDelete(k) ==
    LET r == cache_delete(cache, k)
    IN  CacheCalled("delete", k, <<r.ret>>, FALSE, r.cache, cache_last.order,
                    cache_last.born)

CacheCleanup ==
    CacheCalled("cleanup_expired", 0, <<>>, FALSE, cleanup_expired(cache, now),
                cache_last.order, cache_last.born)

\* time.time() advances between two cache calls.
CacheTick ==
    /\ now < MaxCacheTime
    /\ now' = now + 1
    /\ cache_last' = [NoCacheCall EXCEPT !.op = "tick", !.order = cache_last.order,
                                         !.born = cache_last.born]
    /\ UNCHANGED cache
    /\ CacheFrame

CacheNext ==
    \/ \E k \in CacheKeys : CacheGet(k)
    \/ \E k \in CacheKeys, v \in CacheValues, ttl \in Ttls : CacheSet(k, v, ttl)
    \/ \E k \in CacheKeys : CacheDelete(k)
    \/ CacheCleanup
    \/ CacheTick

CacheSpec == Init /\ [][CacheNext]_vars

\* ------------------------------------------ the playlist-load specification

PlaylistFrame ==
    UNCHANGED <<queue, current_song, loop_mode, audio_filter, autoplay_enabled,
                vote_skip_users, song_start_time, now_playing_message_id, seeking,
                vc, callbacks, cmd, cb, now, nextId, listeners, last, e2e, snap,
                votes_cast_on, stopped, states, db, seeking_guilds, svc, saved,
                shelf, ops, cache, cache_last, voice>>

\* MusicCommands.play for a playlist URL, from extract to create_task: the
\* songs of the first entries go to add / add_many, and the rest is left to
\* a background task when add_many counted enough songs.
PlayPlaylist ==
    /\ pl.pc \in {"idle", "done"}
    /\ \E entries \in Playlists :
        LET results == extract(entries, PlaylistCap)
            more    == Len(results) # 1 /\ Len(results) >= LoadMoreAt
        IN  pl' = [pc |-> IF more THEN "loading" ELSE "done", entries |-> entries,
                   count |-> Len(results), added |-> results]
    /\ PlaylistFrame

\* MusicCommands._load_remaining_playlist
LoadRemainingPlaylist ==
    /\ pl.pc = "loading"
    /\ pl' = [pl EXCEPT !.pc = "done",
                        !.added = @ \o extract_remaining_playlist(pl.entries, pl.count)]
    /\ PlaylistFrame

PlaylistNext ==
    \/ PlayPlaylist
    \/ LoadRemainingPlaylist

PlaylistSpec == Init /\ [][PlaylistNext]_vars

\* ------------------------------------------- the service-call specification

\* The services' operations applied, one call after another, to guild states
\* drawn from bounded sets.  last records the operation just applied and its
\* result, snap the state it was applied to.

InputSongs == {Song(i, TRUE) : i \in 1..MaxSongs}
QueueInputs == UNION {[1..n -> InputSongs] : n \in 0..MaxSongs}

\* A source is playing or paused only with a current song; a seek has just
\* restarted playback when the seeking flag is set, its callback is waiting.
TransportInputs ==
    /\ vc \in {"idle", "playing", "paused"}
    /\ Active(vc) => current_song # None
    /\ seeking \in BOOLEAN
    /\ seeking => vc = "playing"
    /\ callbacks = IF seeking THEN 1 ELSE 0

\* Queues, current songs and loop modes for get_next and play_next.
QueueFamily ==
    /\ queue \in QueueInputs
    /\ current_song \in {None} \cup InputSongs
    /\ loop_mode \in {LoopModes[i] : i \in 1..Len(LoopModes)}
    /\ TransportInputs
    /\ now = 0
    /\ song_start_time = IF current_song = None THEN <<>> ELSE <<0>>
    /\ listeners = MainListeners
    /\ vote_skip_users = {}

\* Listener counts and votes already cast, for the skip command.
VoteFamily ==
    /\ queue \in {<<>>, <<Song(2, TRUE)>>}
    /\ current_song = Song(1, TRUE)
    /\ loop_mode = "off"
    /\ vc \in {"playing", "paused"}
    /\ seeking = FALSE
    /\ callbacks = 0
    /\ now = 0
    /\ song_start_time = <<0>>
    /\ listeners \in 0..MaxListeners
    /\ vote_skip_users \in SUBSET Users

\* Clock readings and start times, songs with or without a stream URL, for
\* seek and the refresh inside play_song.
SeekFamily ==
    /\ queue \in {<<>>, <<Song(2, TRUE)>>, <<Song(2, FALSE)>>}
    /\ current_song \in {None, Song(1, TRUE), Song(1, FALSE)}
    /\ loop_mode = "off"
    /\ TransportInputs
    /\ now \in 0..MaxTime
    /\ song_start_time \in
           IF current_song = None THEN {<<>>} ELSE {<<t>> : t \in 0..now}
    /\ listeners = MainListeners
    /\ vote_skip_users = {}

ApiInit ==
    /\ audio_filter = "off"
    /\ autoplay_enabled = FALSE
    /\ now_playing_message_id = FALSE
    /\ cmd = IdleCmd
    /\ cb = IdleCb
    /\ nextId = MaxSongs + 1
    /\ last = Other
    /\ e2e = NotClean
    /\ snap = NoSnap
    /\ ServiceIdle
    /\ \/ QueueFamily
       \/ VoteFamily
       \/ SeekFamily
    /\ votes_cast_on = IF vote_skip_users = {} THEN {} ELSE {current_song.id}
    /\ stopped = FALSE

\* The history of a call: name, argument, result, how it ended, whether it
\* directly follows a pause() that returned True, whether it directly follows
\* a skip command that stopped the source, and the user who issued it.
HistoryBy(name, arg, ret, out, song, user) ==
    /\ last' = [op |-> name, arg |-> arg, ret |-> ret, out |-> out,
                prev |-> (last.op = "pause" /\ last.ret),
                forced |-> (last.op = "skip" /\ last.ret), user |-> user]
    /\ snap' = [queue |-> queue, current |-> current_song, loop |-> loop_mode,
                seeking |-> seeking, vc |-> vc, votes |-> vote_skip_users,
                song |-> song]
    /\ VotesCast
    /\ UNCHANGED <<stopped, listeners, states, db, seeking_guilds, svc, saved, shelf, ops>>
    /\ UNCHANGED Aside

History(name, arg, ret, out, song) == HistoryBy(name, arg, ret, out, song, "")

\* QueueService.get_next
ApiGetNext ==
    /\ UNCHANGED <<loop_mode, audio_filter, autoplay_enabled, vote_skip_users,
                   song_start_time, now_playing_message_id, seeking, vc, callbacks,
                   cmd, cb, now, nextId, e2e>>
    /\ LET g == get_next(queue, current_song, loop_mode)
       IN  /\ queue' = g.queue
           /\ current_song' = g.current
           /\ History("get_next", 0, g.song # None, "", g.song)

\* PlayerService.play_next, called by the waiting completion callback if there
\* is one, up to its first await.
ApiPlayNext ==
    /\ cmd.pc = "idle"
    /\ \E fail \in BOOLEAN :
        LET c == IF callbacks > 0 THEN callbacks - 1 ELSE 0
            r == play_next([PState EXCEPT !.cbs = c], loop_mode, fail, now)
        IN  /\ SetP(r)
            /\ cmd' = IF r.out = "suspend"
                      THEN [pc |-> "play_refresh", song |-> r.song, arg |-> 0]
                      ELSE IdleCmd
            /\ History("play_next", 0, r.out = "ok", r.out, r.song)
    /\ UNCHANGED <<loop_mode, audio_filter, autoplay_enabled, now_playing_message_id,
                   cb, now, nextId, e2e>>

\* play_next resumed when refresh_url returns inside play_song.
ApiPlayRefreshDone ==
    \E ok \in BOOLEAN, fail \in BOOLEAN :
        /\ PlayRefreshStep(ok, fail)
        /\ LET r == AfterRefresh(PState, cmd.song, ok, fail, now)
           IN  History("play_next_resumed", 0, r.out = "ok", r.out, cmd.song)

ApiPause == PauseStep /\ History("pause", 0, pause(vc).ret, "", None)

ApiResume == ResumeStep /\ History("resume", 0, resume(vc).ret, "", None)

\* MusicCommands.skip; arg is the number of votes it requires.
ApiSkip ==
    \E u \in Users, privileged \in BOOLEAN :
        /\ SkipStep(u, privileged)
        /\ HistoryBy("skip", RequiredVotes(listeners),
                     SkipResult(u, privileged).out \in {"forced", "skipped"},
                     SkipResult(u, privileged).out, None, u)

\* MusicCommands.seek; ret is what PlayerService.seek returned so far.
ApiSeek ==
    \E s \in 0..MaxSeek, fail \in BOOLEAN :
        /\ SeekStep(s, fail)
        /\ History("seek", s, SeekResult(s, fail).out = "ok",
                   SeekResult(s, fail).out, current_song)

\* PlayerService.seek resumed when refresh_url returns; snap keeps the song
\* that was current when seek was called.
ApiSeekRefreshDone ==
    \E ok \in BOOLEAN, fail \in BOOLEAN :
        /\ SeekRefreshStep(ok, fail)
        /\ LET r == SeekAfterRefresh(PState, cmd.song, cmd.arg, ok, fail, now)
           IN  History("seek", cmd.arg, r.out = "ok", r.out, cmd.song)

ApiNext ==
    \/ ApiGetNext
    \/ ApiPlayNext
    \/ ApiPlayRefreshDone
    \/ ApiPause
    \/ ApiResume
    \/ ApiSkip
    \/ ApiSeek
    \/ ApiSeekRefreshDone

ApiSpec == ApiInit /\ [][ApiNext]_vars

\* ------------------------------------ QueueService calls, guild by guild

MaxOps == 3
MaxQueue == 2
DefaultVolume == 100

SvcSongs == {Requested(1, TRUE, "u1")}
SvcBatches ==
    {<<Requested(2, FALSE, "u2")>>,
     <<Requested(1, TRUE, "u1"), Requested(2, FALSE, "u2")>>}
SvcVolumes == {50, 150}
\* Positions asked for: before the queue, its first two, and past any queue.
SvcIndexes == {-1, 0, 1, MaxQueue}

\* What an earlier process may have left under queue:<guild>.
StoredQueues == {NoKey, [key |-> TRUE, data |-> <<to_dict(Requested(2, TRUE, ""))>>]}

PlaybackVars ==
    <<queue, current_song, loop_mode, audio_filter, autoplay_enabled,
      vote_skip_users, song_start_time, now_playing_message_id, seeking, vc,
      callbacks, cmd, cb, now, nextId, listeners, last, e2e, snap, votes_cast_on,
      stopped, Aside>>

NotSaved == [held |-> FALSE, client |-> FALSE, queue |-> <<>>]

SvcInit ==
    /\ queue = <<>>
    /\ current_song = None
    /\ loop_mode = "off"
    /\ audio_filter = "off"
    /\ autoplay_enabled = FALSE
    /\ vote_skip_users = {}
    /\ song_start_time = <<>>
    /\ now_playing_message_id = FALSE
    /\ seeking = FALSE
    /\ vc = "none"
    /\ callbacks = 0
    /\ cmd = IdleCmd
    /\ cb = IdleCb
    /\ now = 0
    /\ nextId = 1
    /\ listeners = MainListeners
    /\ last = Other
    /\ e2e = NotClean
    /\ snap = NoSnap
    /\ votes_cast_on = {}
    /\ stopped = FALSE
    /\ states = [g \in Guilds |-> NoState]
    /\ \E c \in BOOLEAN, stored \in [Guilds -> StoredQueues] :
           db = [NoDb EXCEPT !.client = c, !.queue = stored]
    /\ seeking_guilds = {}
    /\ svc = NoCall
    /\ saved = [g \in Guilds |-> NotSaved]
    /\ shelf = [g \in Guilds |-> [n \in PlaylistNames |-> NoShelf]]
    /\ ops = 0
    /\ AsideIdle

\* One call on guild g: the history of what it met, and its effect.
CallReturning(name, g, a, b, song, ok, ret, st2, d2, sk2, sh2) ==
    /\ ops < MaxOps
    /\ ops' = ops + 1
    /\ states' = st2
    /\ db' = d2
    /\ seeking_guilds' = sk2
    /\ shelf' = sh2
    /\ svc' = [op |-> name, guild |-> g, a |-> a, b |-> b, song |-> song, ok |-> ok,
               ret |-> ret,
               created |-> ~states[g].present,
               before |-> states,
               pre |-> get_state(states, db, g)[g],
               predb |-> db,
               preseeking |-> seeking_guilds,
               saved |-> saved[g]]
    /\ saved' = [saved EXCEPT ![g] = NotSaved]
    /\ UNCHANGED PlaybackVars

Call(name, g, a, b, song, ok, st2, d2, sk2) ==
    CallReturning(name, g, a, b, song, ok, <<>>, st2, d2, sk2, shelf)

\* QueueService.get_queue
SvcGetQueue(g) ==
    LET st == get_state(states, db, g)
    IN  Call("get_queue", g, 0, 0, None, TRUE, st, db, seeking_guilds)

\* QueueService.add
SvcAdd(g, song) ==
    LET st  == get_state(states, db, g)
        r   == add_to_queue(st[g].queue, song)
        st2 == [st EXCEPT ![g].queue = r.queue]
    IN  /\ Len(st[g].queue) < MaxQueue
        /\ Call("add", g, r.position, 0, song, TRUE, st2,
                save_queue_to_redis(st2, db, g), seeking_guilds)

\* QueueService.add_many
SvcAddMany(g, songs) ==
    LET st  == get_state(states, db, g)
        st2 == [st EXCEPT ![g].queue = add_each(@, songs)]
    IN  /\ Len(st[g].queue) + Len(songs) <= MaxQueue
        /\ Call("add_many", g, Len(songs), 0, None, TRUE, st2,
                save_queue_to_redis(st2, db, g), seeking_guilds)

\* QueueService.remove
SvcRemove(g, index) ==
    LET st  == get_state(states, db, g)
        r   == remove_from_queue(st[g].queue, index)
        st2 == [st EXCEPT ![g].queue = r.queue]
    IN  Call("remove", g, index, 0, r.song, r.song # None, st2,
             IF r.song # None THEN save_queue_to_redis(st2, db, g) ELSE db,
             seeking_guilds)

\* QueueService.move
SvcMove(g, from_pos, to_pos) ==
    LET st  == get_state(states, db, g)
        r   == move_song(st[g].queue, from_pos, to_pos)
        st2 == [st EXCEPT ![g].queue = r.queue]
    IN  Call("move", g, from_pos, to_pos, None, r.ok, st2,
             IF r.ok THEN save_queue_to_redis(st2, db, g) ELSE db,
             seeking_guilds)

\* Variant of shuffle_queue that draws every position afresh from the queue.
Shuffles_drawn(q) ==
    LET n == Len(q)
    IN  {[i \in 1..n |-> q[f[i]]] : f \in [1..n -> 1..n]}

\* GuildState.shuffle_queue: random.shuffle leaves any order of the same songs.
Shuffles(q) ==
    LET n == Len(q)
        perms == {f \in [1..n -> 1..n] : \A a, b \in 1..n : f[a] = f[b] => a = b}
    IN  {[i \in 1..n |-> q[f[i]]] : f \in perms}

\* QueueService.shuffle
SvcShuffle(g) ==
    LET st == get_state(states, db, g)
    IN  \E q2 \in Shuffles(st[g].queue) :
            LET st2 == [st EXCEPT ![g].queue = q2]
            IN  Call("shuffle", g, 0, 0, None, TRUE, st2,
                     save_queue_to_redis(st2, db, g), seeking_guilds)

\* QueueService.clear
SvcClear(g) ==
    LET st  == get_state(states, db, g)
        st2 == [st EXCEPT ![g].queue = <<>>]
    IN  Call("clear", g, 0, 0, None, TRUE, st2, clear_queue(db, g), seeking_guilds)

\* QueueService.get_next
SvcGetNext(g) ==
    LET st  == get_state(states, db, g)
        r   == get_next(st[g].queue, st[g].current_song, st[g].loop_mode)
        st2 == [st EXCEPT ![g].queue = r.queue, ![g].current_song = r.current]
    IN  Call("get_next", g, 0, 0, r.song, r.song # None, st2,
             IF r.song # None THEN save_queue_to_redis(st2, db, g) ELSE db,
             seeking_guilds)

\* QueueService.set_loop_mode
SvcSetLoopMode(g, mode) ==
    LET st  == get_state(states, db, g)
        st2 == [st EXCEPT ![g].loop_mode = mode]
    IN  Call("set_loop_mode", g, 0, 0, None, TRUE, st2,
             set_setting(db, g, "loop_mode", mode), seeking_guilds)

\* QueueService.cycle_loop_mode: set_loop_mode with the mode after this one.
SvcCycleLoopMode(g) ==
    SvcSetLoopMode(g, cycle_loop_mode(get_state(states, db, g)[g].loop_mode))

\* QueueService.set_volume: the volume is clamped to the range it may take.
ClampVolume(v) == IF v > DefaultVolume THEN DefaultVolume ELSE IF v < 0 THEN 0 ELSE v

SvcSetVolume(g, v) ==
    LET st  == get_state(states, db, g)
        st2 == [st EXCEPT ![g].volume = ClampVolume(v)]
    IN  Call("set_volume", g, v, 0, None, TRUE, st2,
             set_setting(db, g, "volume", ClampVolume(v)), seeking_guilds)

\* QueueService.set_filter
SvcSetFilter(g, f) ==
    LET st  == get_state(states, db, g)
        st2 == [st EXCEPT ![g].audio_filter = f]
    IN  Call("set_filter", g, 0, 0, None, TRUE, st2,
             set_setting(db, g, "audio_filter", f), seeking_guilds)

\* QueueService.add_skip_vote
SvcVote(g, u) ==
    LET st  == get_state(states, db, g)
        r   == add_skip_vote(st[g].vote_skip_users, u)
        st2 == [st EXCEPT ![g].vote_skip_users = r.votes]
    IN  Call("add_skip_vote", g, 0, 0, None, r.ok, st2, db, seeking_guilds)

\* PlayerService.seek, past the restart of the stream: the guild is marked as
\* seeking and the start time moved; without a current song it returns False.
SvcSeek(g, t) ==
    LET st  == get_state(states, db, g)
        has == st[g].current_song # None
        st2 == IF has THEN [st EXCEPT ![g].song_start_time = <<t>>] ELSE st
    IN  Call("seek", g, t, 0, None, has, st2, db,
             IF has THEN seeking_guilds \cup {g} ELSE seeking_guilds)

\* PlayerService.play_next reached from the callback of a seek: the mark is
\* taken off and nothing else happens.
SvcSeekReplay(g) ==
    /\ g \in seeking_guilds
    /\ Call("play_next_seeking", g, 0, 0, None, FALSE, states, db, seeking_guilds \ {g})

\* Variant of cleanup_guild that forgets every guild.
cleanup_guild_all(st, g) == [h \in Guilds |-> NoState]

\* QueueService.cleanup_guild, on _states.
cleanup_guild(st, g) == [st EXCEPT ![g] = NoState]

SvcCleanup(g) ==
    Call("cleanup", g, 0, 0, None, TRUE, cleanup_guild(states, g),
         clear_queue(db, g), seeking_guilds)

\* The process stops and a new one starts: QueueService and PlayerService are
\* built afresh, RedisManager connects or does not, Redis keeps its keys.
SvcRestart(c) ==
    /\ ops < MaxOps
    /\ ops' = ops + 1
    /\ saved' = [g \in Guilds |->
                   [held |-> states[g].present, client |-> db.client,
                    queue |-> states[g].queue]]
    /\ states' = [g \in Guilds |-> NoState]
    /\ seeking_guilds' = {}
    /\ db' = [db EXCEPT !.client = c]
    /\ svc' = [NoCall EXCEPT !.op = "restart"]
    /\ UNCHANGED <<shelf, PlaybackVars>>

SvcNext ==
    \/ \E g \in Guilds : SvcGetQueue(g)
    \/ \E g \in Guilds, song \in SvcSongs : SvcAdd(g, song)
    \/ \E g \in Guilds, songs \in SvcBatches : SvcAddMany(g, songs)
    \/ \E g \in Guilds, i \in SvcIndexes : SvcRemove(g, i)
    \/ \E g \in Guilds, i, j \in SvcIndexes : SvcMove(g, i, j)
    \/ \E g \in Guilds : SvcShuffle(g)
    \/ \E g \in Guilds : SvcClear(g)
    \/ \E g \in Guilds : SvcGetNext(g)
    \/ \E g \in Guilds : SvcCycleLoopMode(g)
    \/ \E g \in Guilds, v \in SvcVolumes : SvcSetVolume(g, v)
    \/ \E g \in Guilds : SvcSetFilter(g, "nightcore")
    \/ \E g \in Guilds : SvcVote(g, "u1")
    \/ \E g \in Guilds : SvcSeek(g, MaxSeek)
    \/ \E g \in Guilds : SvcSeekReplay(g)
    \/ \E g \in Guilds : SvcCleanup(g)
    \/ \E c \in BOOLEAN : SvcRestart(c)

SvcSpec == SvcInit /\ [][SvcNext]_vars

\* ------------------------------------ settings and playlists of a guild

Channels == {0, 1}      \* a request channel id; 0 is None

\* QueueService.get_247_mode: [value, state]; the flag is read from Redis the
\* first time it is asked for on this GuildState.
get_247_mode(s, d, g) ==
    IF ~s.loaded_247
    THEN LET v == get_settings(d, g).is_247_mode
         IN  [value |-> v, state |-> [s EXCEPT !.is_247_mode = v, !.loaded_247 = TRUE]]
    ELSE [value |-> s.is_247_mode, state |-> s]

\* QueueService.get_autoplay: [value, state], read as get_247_mode reads.
get_autoplay(s, d, g) ==
    IF ~s.loaded_autoplay
    THEN LET v == get_settings(d, g).autoplay_enabled
         IN  [value |-> v, state |-> [s EXCEPT !.autoplay_enabled = v, !.loaded_autoplay = TRUE]]
    ELSE [value |-> s.autoplay_enabled, state |-> s]

\* QueueService.get_request_channel
get_request_channel(d, g) == get_settings(d, g).request_channel_id

\* QueueService.set_247_mode
SvcSet247(g, enabled) ==
    LET st  == get_state(states, db, g)
        st2 == [st EXCEPT ![g].is_247_mode = enabled]
    IN  CallReturning("set_247_mode", g, 0, 0, None, TRUE, enabled, st2,
                      set_setting(db, g, "is_247_mode", enabled), seeking_guilds, shelf)

SvcGet247(g) ==
    LET st == get_state(states, db, g)
        r  == get_247_mode(st[g], db, g)
    IN  CallReturning("get_247_mode", g, 0, 0, None, TRUE, r.value,
                      [st EXCEPT ![g] = r.state], db, seeking_guilds, shelf)

\* QueueService.set_autoplay
SvcSetAutoplay(g, enabled) ==
    LET st  == get_state(states, db, g)
        st2 == [st EXCEPT ![g].autoplay_enabled = enabled]
    IN  CallReturning("set_autoplay", g, 0, 0, None, TRUE, enabled, st2,
                      set_setting(db, g, "autoplay_enabled", enabled), seeking_guilds, shelf)

SvcGetAutoplay(g) ==
    LET st == get_state(states, db, g)
        r  == get_autoplay(st[g], db, g)
    IN  CallReturning("get_autoplay", g, 0, 0, None, TRUE, r.value,
                      [st EXCEPT ![g] = r.state], db, seeking_guilds, shelf)

\* QueueService.set_request_channel
SvcSetRequestChannel(g, c) ==
    CallReturning("set_request_channel", g, 0, 0, None, TRUE, c, states,
                  set_setting(db, g, "request_channel_id", c), seeking_guilds, shelf)

SvcGetRequestChannel(g) ==
    CallReturning("get_request_channel", g, 0, 0, None, TRUE,
                  get_request_channel(db, g), states, db, seeking_guilds, shelf)

\* Variant of PlaylistSongs that leaves the current song out.
PlaylistSongs_pending(s) == to_dicts(s.queue)

\* QueueService.save_playlist: the current song, if any, then the queue.
PlaylistSongs(s) ==
    (IF s.current_song # None THEN <<to_dict(s.current_song)>> ELSE <<>>)
        \o to_dicts(s.queue)

\* RedisManager.save_playlist
save_playlist(d, g, name, songs) ==
    IF ~d.client THEN d
    ELSE [d EXCEPT !.playlists[g][name] = [key |-> TRUE, data |-> songs],
                   !.writes = @ + 1]

\* QueueService.load_playlist over RedisManager.load_playlist: [found, songs];
\* a name Redis does not hold and an empty list both come back as None.
load_playlist(d, g, name) ==
    LET data == IF d.client /\ d.playlists[g][name].key
                THEN d.playlists[g][name].data ELSE <<>>
    IN  IF data # <<>> THEN [found |-> TRUE, songs |-> from_dicts(data)]
        ELSE [found |-> FALSE, songs |-> <<>>]

\* RedisManager.delete_playlist: [ok, db]
delete_playlist(d, g, name) ==
    IF d.client /\ d.playlists[g][name].key
    THEN [ok |-> TRUE, db |-> [d EXCEPT !.playlists[g][name] = NoKey, !.writes = @ + 1]]
    ELSE [ok |-> FALSE, db |-> d]

\* MusicCommands.playlist_save: nothing is saved of an empty queue with no
\* current song.
SvcPlaylistSave(g, name) ==
    LET st    == get_state(states, db, g)
        empty == st[g].queue = <<>> /\ st[g].current_song = None
        songs == PlaylistSongs(st[g])
        live  == (IF st[g].current_song # None THEN <<st[g].current_song>> ELSE <<>>)
                    \o st[g].queue
    IN  IF empty
        THEN CallReturning("playlist_save", g, 0, 0, None, FALSE, <<>>, st, db,
                           seeking_guilds, shelf)
        ELSE CallReturning("playlist_save", g, Len(songs), 0, None, TRUE, <<>>, st,
                           save_playlist(db, g, name, songs), seeking_guilds,
                           [shelf EXCEPT ![g][name] =
                               [saved |-> TRUE, client |-> db.client, songs |-> live]])

\* QueueService.load_playlist
SvcPlaylistLoad(g, name) ==
    LET r == load_playlist(db, g, name)
    IN  CallReturning("load_playlist", g, 0, 0, None, r.found, r.songs, states, db,
                      seeking_guilds, shelf)

\* QueueService.delete_playlist
SvcPlaylistDelete(g, name) ==
    LET r == delete_playlist(db, g, name)
    IN  CallReturning("delete_playlist", g, 0, 0, None, r.ok, <<>>, states, r.db,
                      seeking_guilds, [shelf EXCEPT ![g][name] = NoShelf])

PrefNext ==
    \/ \E g \in Guilds, enabled \in BOOLEAN : SvcSet247(g, enabled)
    \/ \E g \in Guilds : SvcGet247(g)
    \/ \E g \in Guilds, enabled \in BOOLEAN : SvcSetAutoplay(g, enabled)
    \/ \E g \in Guilds : SvcGetAutoplay(g)
    \/ \E g \in Guilds, c \in Channels : SvcSetRequestChannel(g, c)
    \/ \E g \in Guilds : SvcGetRequestChannel(g)
    \/ \E g \in Guilds, v \in SvcVolumes : SvcSetVolume(g, v)
    \/ \E g \in Guilds : SvcCycleLoopMode(g)
    \/ \E g \in Guilds : SvcSetFilter(g, "nightcore")
    \/ \E g \in Guilds, name \in PlaylistNames : SvcPlaylistSave(g, name)
    \/ \E g \in Guilds, name \in PlaylistNames : SvcPlaylistLoad(g, name)
    \/ \E g \in Guilds, name \in PlaylistNames : SvcPlaylistDelete(g, name)
    \/ \E g \in Guilds, song \in SvcSongs : SvcAdd(g, song)
    \/ \E g \in Guilds : SvcGetNext(g)
    \/ \E g \in Guilds : SvcClear(g)
    \/ \E g \in Guilds : SvcCleanup(g)
    \/ \E c \in BOOLEAN : SvcRestart(c)

PrefSpec == SvcInit /\ [][PrefNext]_vars

\* ------------------------------------------- the voice-state specification

\* The guild whose voice connection is followed.
VoiceGuild == "g1"

MaxWrites == 3   \* Redis writes after which no new command or disconnect starts

\* More may be written to Redis.
MayWrite == db.writes < MaxWrites

VoiceFrame ==
    UNCHANGED <<queue, current_song, loop_mode, audio_filter, autoplay_enabled,
                vote_skip_users, song_start_time, now_playing_message_id, seeking,
                vc, callbacks, cmd, cb, now, nextId, listeners, last, e2e, snap,
                votes_cast_on, stopped, seeking_guilds, svc, saved, shelf, ops,
                cache, cache_last, pl>>

\* PlayerService.connect returns a voice client: the bot is in a channel. The
\* update of an earlier disconnect has been delivered by then.
VoiceJoin ==
    /\ ~voice.client /\ voice.pc = "idle" /\ voice.events = <<>>
    /\ voice' = [voice EXCEPT !.client = TRUE]
    /\ UNCHANGED <<states, db>>
    /\ VoiceFrame

\* QueueService.add while the bot is connected.
VoiceAdd ==
    /\ voice.client /\ voice.pc = "idle" /\ MayWrite
    /\ \E song \in SvcSongs :
        LET st  == get_state(states, db, VoiceGuild)
            st2 == [st EXCEPT ![VoiceGuild].queue = add_to_queue(@, song).queue]
        IN  /\ Len(st[VoiceGuild].queue) < MaxQueue
            /\ states' = st2
            /\ db' = save_queue_to_redis(st2, db, VoiceGuild)
    /\ UNCHANGED voice
    /\ VoiceFrame

\* PlayerService.disconnect up to its await: the guild is marked, and
\* vc.disconnect() makes the bot leave its channel (left), which brings a
\* voice state update, or returns from a client that is not connected.
disconnect(v, left) ==
    [v EXCEPT !.marker = TRUE,
              !.client = IF left THEN FALSE ELSE @,
              !.events = IF left THEN Append(@, "asked") ELSE @,
              !.pc = "leaving"]

\* MusicCommands.disconnect, which has found a voice client.
LeaveCmd ==
    /\ voice.client /\ voice.pc = "idle" /\ MayWrite
    /\ \E left \in BOOLEAN : voice' = disconnect(voice, left)
    /\ UNCHANGED <<states, db>>
    /\ VoiceFrame

\* on_voice_state_update for the last member leaving the bot's channel: the
\* bot disconnects unless the guild is in 24/7 mode.
LeftAlone ==
    /\ voice.client /\ voice.pc = "idle" /\ MayWrite
    /\ LET st == get_state(states, db, VoiceGuild)
           r  == get_247_mode(st[VoiceGuild], db, VoiceGuild)
       IN  /\ states' = [st EXCEPT ![VoiceGuild] = r.state]
           /\ IF r.value
              THEN UNCHANGED voice
              ELSE \E left \in BOOLEAN : voice' = disconnect(voice, left)
    /\ UNCHANGED db
    /\ VoiceFrame

\* PlayerService.disconnect resumed: cleanup_guild.
DisconnectDone ==
    /\ voice.pc = "leaving"
    /\ voice' = [voice EXCEPT !.pc = "idle"]
    /\ states' = cleanup_guild(states, VoiceGuild)
    /\ db' = clear_queue(db, VoiceGuild)
    /\ VoiceFrame

\* The bot is removed from its channel without having asked for it.
VoiceDropped ==
    /\ voice.client /\ voice.events = <<>> /\ MayWrite
    /\ voice' = [voice EXCEPT !.client = FALSE, !.events = Append(@, "lost")]
    /\ UNCHANGED <<states, db>>
    /\ VoiceFrame

\* on_voice_state_update for the bot having left its channel.
BotLeft ==
    /\ voice.events # <<>>
    /\ voice' = [voice EXCEPT !.events = Tail(@), !.marker = FALSE]
    /\ IF voice.marker
       THEN UNCHANGED <<states, db>>
       ELSE /\ states' = cleanup_guild(states, VoiceGuild)
            /\ db' = clear_queue(db, VoiceGuild)
    /\ VoiceFrame

VoiceNext ==
    \/ VoiceJoin
    \/ VoiceAdd
    \/ LeaveCmd
    \/ LeftAlone
    \/ DisconnectDone
    \/ VoiceDropped
    \/ BotLeft
    \/ \E enabled \in BOOLEAN : SvcSet247(VoiceGuild, enabled)

VoiceSpec == SvcInit /\ [][VoiceNext]_vars

\* ------------------------------------------------------------ properties

\* No coroutine is suspended and no completion callback is waiting.
Quiescent == cmd.pc = "idle" /\ cb.pc = "idle" /\ callbacks = 0

Ids(q) == [i \in 1..Len(q) |-> q[i].id]

\* C1: whenever every transition has completed, a current track is recorded
\* exactly when the transport is playing or paused -- also after a track
\* start that failed.
C1_CurrentIffActive ==
    Quiescent => ((current_song # None) <=> Active(vc))

\* C2: tracks t1..tn enqueued into an empty, idle guild with loop off are
\* started in the order t1, t2, .., tn by the successive play_next calls; the
\* play_next after tn returns no track and leaves no current track and an
\* empty queue.
C2_PlayThroughInOrder ==
    (e2e.clean /\ nextId > 1) =>
        LET n == nextId - 1
            k == Len(e2e.started)
        IN  /\ k >= 1
            /\ e2e.started = [i \in 1..k |-> i]
            /\ Ids(queue) = [i \in 1..(n - k) |-> k + i]
            /\ ~e2e.done => current_song.id = k
            /\ (Quiescent /\ ~Active(vc)) => e2e.done
            /\ e2e.done => (k = n /\ current_song = None /\ queue = <<>> /\ ~Active(vc))

C2_Witness ==
    /\ e2e.clean /\ e2e.done
    /\ Len(e2e.started) = MaxBatch
    /\ current_song = None /\ queue = <<>>

\* C7: the _play_next_async coroutine that consumed the seeking flag enqueues
\* nothing and leaves the queue and the current track alone, whatever the
\* autoplay setting.
C7_SeekCallbackLeavesQueue ==
    [][(cb.skipped /\ cb' # cb) =>
          (queue' = queue /\ current_song' = current_song /\ nextId' = nextId)]_vars

\* C3: with loop mode "queue", a current song C and a queue [A, rest..],
\* get_next returns A, makes A the current song and leaves the queue as rest
\* followed by C.
C3_QueueLoopRequeues ==
    (last.op = "get_next" /\ snap.loop = "queue" /\ snap.current # None
                          /\ snap.queue # <<>>) =>
        /\ snap.song = Head(snap.queue)
        /\ current_song = Head(snap.queue)
        /\ queue = Append(Tail(snap.queue), snap.current)

C3_Witness ==
    /\ last.op = "get_next" /\ snap.loop = "queue" /\ snap.current # None
    /\ Len(snap.queue) = MaxSongs
    /\ snap.current # Head(snap.queue)
    /\ queue[Len(queue)] = snap.current

\* C4: with loop mode "song" and a current song C, get_next returns C, the
\* current song stays C and the queue is left as it was, empty or not.
C4_SongLoopRepeats ==
    (last.op = "get_next" /\ snap.loop = "song" /\ snap.current # None) =>
        /\ snap.song = snap.current
        /\ current_song = snap.current
        /\ queue = snap.queue

C4_Witness ==
    /\ last.op = "get_next" /\ snap.loop = "song" /\ snap.current # None
    /\ snap.queue = <<>>
    /\ snap.song = snap.current

\* C5: with loop mode "off" and an empty queue, get_next returns no song, and
\* the play_next that called it returns False with the current song set to
\* None, whatever the current song was.
C5_EmptyQueueClearsCurrent ==
    /\ (last.op = "get_next" /\ snap.loop = "off" /\ snap.queue = <<>>) =>
           (snap.song = None /\ queue = <<>>)
    /\ (last.op = "play_next" /\ ~snap.seeking /\ snap.loop = "off"
                              /\ snap.queue = <<>>) =>
           (last.out = "empty" /\ ~last.ret /\ current_song = None /\ queue = <<>>)

C5_Witness ==
    /\ last.op = "play_next" /\ ~snap.seeking /\ snap.loop = "off"
    /\ snap.queue = <<>> /\ snap.current # None
    /\ current_song = None

\* C6: with loop mode "queue", a current song C and an empty queue, get_next
\* puts C back and returns it, so C stays the current song.
C6_SoloQueueLoopRepeats ==
    (last.op = "get_next" /\ snap.loop = "queue" /\ snap.current # None
                          /\ snap.queue = <<>>) =>
        /\ snap.song = snap.current
        /\ current_song = snap.current
        /\ queue = <<>>

\* C8: after a seek to s that succeeded at clock time now, the start time is
\* now - s and the position read back is s; the queue is as before and the
\* current song is the same song (with its stream URL refreshed if it had none).
C8_SeekSetsStartTime ==
    (last.op = "seek" /\ last.ret) =>
        /\ song_start_time = <<now - last.arg * TicksPerSecond>>
        /\ get_current_position(song_start_time, now) = last.arg
        /\ queue = snap.queue
        /\ current_song = IF snap.song.url THEN snap.song ELSE Refreshed(snap.song)

C8_Witness ==
    /\ last.op = "seek" /\ last.ret /\ last.arg = MaxSeek
    /\ now = MaxTime
    /\ song_start_time = <<now - MaxSeek * TicksPerSecond>>
    /\ queue # <<>>

\* C9: pause on a playing client returns True and pauses it; a pause right
\* after a successful pause returns False and leaves the client paused; resume
\* on a client that is not paused (never started included) returns False and
\* changes nothing; resume on a paused client returns True and it plays again.
C9_PauseResume ==
    /\ (last.op = "pause" /\ snap.vc = "playing") => (last.ret /\ vc = "paused")
    /\ (last.op = "pause" /\ last.prev) =>
           (~last.ret /\ snap.vc = "paused" /\ vc = "paused")
    /\ (last.op = "resume" /\ snap.vc # "paused") => (~last.ret /\ vc = snap.vc)
    /\ (last.op = "resume" /\ snap.vc = "paused") => (last.ret /\ vc = "playing")

C9_Witness ==
    /\ last.op = "pause" /\ last.prev /\ ~last.ret
    /\ vc = "paused"

\* ceil(n * threshold), at least 1.
CeilVotes(n) ==
    LET c == (n * ThresholdNum + ThresholdDen - 1) \div ThresholdDen
    IN  IF c > 1 THEN c ELSE 1

\* C10: a skip request of a non-privileged user requires
\* ceil(listeners * threshold) votes, at least 1, and passes only with that
\* many votes.
C10_RequiredVotesIsCeiling ==
    (last.op = "skip" /\ last.out \in {"voted", "skipped"}) =>
        /\ last.arg = CeilVotes(listeners)
        /\ last.out = "skipped" <=> Cardinality(snap.votes) + 1 >= CeilVotes(listeners)

\* C11: a skip vote of a user who already voted for the current song is
\* answered "already voted", changes neither the votes nor the playback; a new
\* vote that leaves the votes below the required count is only counted, and the
\* vote with which the distinct voters reach the required count skips (4
\* listeners require 2 votes).
C11_VoteOncePerUser ==
    (last.op = "skip" /\ last.out \notin {"nothing", "forced"}) =>
        /\ last.out = "already" <=> last.user \in snap.votes
        /\ last.out = "already" =>
               (vote_skip_users = snap.votes /\ vc = snap.vc /\ ~last.ret)
        /\ last.out = "voted" =>
               /\ vote_skip_users = snap.votes \cup {last.user}
               /\ Cardinality(vote_skip_users) < last.arg
               /\ vc = snap.vc /\ ~last.ret
        /\ last.out = "skipped" =>
               /\ Cardinality(snap.votes \cup {last.user}) >= last.arg
               /\ vc = "idle" /\ vote_skip_users = {} /\ last.ret
        /\ listeners = 4 => last.arg = 2

C11_Witness ==
    /\ last.op = "skip" /\ last.out = "skipped"
    /\ listeners = 4
    /\ Cardinality(snap.votes) = 1
    /\ last.user \notin snap.votes

\* C15: a failed track start is followed, within the same play_next, by the
\* start of the next queued song: a play_next that took a song from the queue
\* and ran to its end without an await leaves the connected client idle only
\* when no song is queued any more.
C15_FailedStartMovesOn ==
    [][(/\ ~Active(vc) /\ vc' = "idle"
        /\ current_song' # current_song /\ current_song' # None
        /\ cmd.pc = "idle" /\ cb.pc = "idle"
        /\ cmd'.pc = "idle" /\ cb'.pc = "idle")
          => queue' = <<>>]_vars

\* C16: a play_next whose track starts fail tries and drops every queued
\* song: when it returns False for a failed start the queue is empty and no
\* current song is left.
C16_AllFailingDrains ==
    (last.op \in {"play_next", "play_next_resumed"} /\ last.out = "fail"
                                                    /\ snap.vc # "none") =>
        (queue = <<>> /\ current_song = None)

\* C17: when the callback's play_next finds the queue exhausted (loop off)
\* while autoplay is enabled and a song was current, _play_next_async goes on
\* to request related songs for that song.
C17_AutoplayOnExhaustedQueue ==
    [][(CbRun /\ ~seeking /\ queue = <<>> /\ loop_mode = "off"
              /\ autoplay_enabled /\ current_song # None)
          => (cb'.pc = "related" /\ cb'.song = current_song)]_vars

\* C18: while a play_next is suspended in refresh_url, no other handler pops
\* the queue or replaces the current song: commands take effect only after
\* the suspended transition has completed.
C18_NoInterleaving ==
    [][((cb.pc \in {"refresh", "refresh2"} /\ cb' = cb) \/
        (cmd.pc = "play_refresh" /\ cmd' = cmd))
          => (vc' = "none" \/
              (current_song' = current_song /\ Len(queue') >= Len(queue)))]_vars

\* C19: the completion callback of the transport only hands _play_next_async
\* to the event loop: the step leaves every field of the guild state, the
\* seeking flag and the suspended coroutines as they are.
C19_CallbackOnlySchedules ==
    [][TrackEnds =>
          /\ callbacks' = callbacks + 1
          /\ UNCHANGED <<queue, current_song, loop_mode, audio_filter,
                         autoplay_enabled, vote_skip_users, song_start_time,
                         now_playing_message_id, seeking, cmd, cb>>]_vars

C19_Witness ==
    /\ vc = "idle" /\ callbacks > 0 /\ cb.pc = "idle"
    /\ current_song # None /\ queue # <<>>
    /\ song_start_time # <<>>
\* ------------------------------------------------ QueueService properties

OutOfRange(i, q) == i < 0 \/ i >= Len(q)

\* The call found the guild's state as get_state hands it out and left it,
\* every other guild's state and Redis as they were.
Rejected ==
    /\ states = [svc.before EXCEPT ![svc.guild] = svc.pre]
    /\ db = svc.predb

\* C12: remove and move with an index outside [0, len(queue)) return None /
\* False, leave the queue, the current song and every other field of the
\* guild's state as they were, and write nothing to Redis.
C12_OutOfRangeRejected ==
    /\ (svc.op = "remove" /\ OutOfRange(svc.a, svc.pre.queue)) =>
           (svc.song = None /\ Rejected)
    /\ (svc.op = "move" /\ (OutOfRange(svc.a, svc.pre.queue) \/ OutOfRange(svc.b, svc.pre.queue))) =>
           (~svc.ok /\ Rejected)

C12_Witness ==
    /\ svc.op = "remove" /\ svc.a = -1
    /\ Len(svc.pre.queue) = 2 /\ svc.pre.current_song # None
    /\ svc.predb.client

\* C13: a queue held when the process stops, with Redis connected, is the
\* queue the next process loads for that guild: the same songs in the same
\* order, each without its requester and otherwise as it was.
C13_ReloadKeepsQueue ==
    (svc.op = "get_queue" /\ svc.created /\ svc.saved.held /\ svc.saved.client /\ db.client) =>
        LET q == states[svc.guild].queue
            s == svc.saved.queue
        IN  /\ Len(q) = Len(s)
            /\ \A i \in 1..Len(s) :
                   q[i].id = s[i].id /\ q[i].url = s[i].url /\ q[i].requester = ""

C13_Witness ==
    /\ svc.op = "get_queue" /\ svc.created /\ svc.saved.held /\ svc.saved.client /\ db.client
    /\ Len(svc.saved.queue) = 2
    /\ svc.saved.queue[1].requester = "u1" /\ svc.saved.queue[1].url

QueueOps == {"add", "add_many", "remove", "move", "shuffle", "clear", "get_next", "cleanup"}

\* The queue a guild has in memory (none after cleanup) and the one under
\* its Redis key (none without the key).
Pending(g) == IF states[g].present THEN states[g].queue ELSE <<>>
Persisted(g) == IF db.queue[g].key THEN db.queue[g].data ELSE <<>>

\* C14: with Redis connected, after add, add_many, remove, move, shuffle,
\* clear, get_next and cleanup_guild the queue stored for the guild is the
\* guild's queue in memory, song by song.
C14_StoreFollowsQueue ==
    (db.client /\ svc.op \in QueueOps) =>
        LET q == Pending(svc.guild)
            d == Persisted(svc.guild)
        IN  /\ Len(d) = Len(q)
            /\ \A i \in 1..Len(q) : d[i].id = q[i].id /\ d[i].url = q[i].url

C14_Witness ==
    /\ db.client /\ svc.op = "clear"
    /\ svc.pre.queue # <<>> /\ svc.predb.queue[svc.guild].key

\* C20: a call for one guild leaves every other guild's state (queue,
\* current song, loop mode, volume, filter, votes, start time), its Redis
\* keys and its seeking mark as they were.
C20_OtherGuildsUntouched ==
    svc.guild \in Guilds =>
        \A h \in Guilds \ {svc.guild} :
            /\ states[h] = svc.before[h]
            /\ db.queue[h] = svc.predb.queue[h]
            /\ db.settings[h] = svc.predb.settings[h]
            /\ (h \in seeking_guilds) = (h \in svc.preseeking)

C20_Witness ==
    /\ svc.op = "cleanup"
    /\ \E h \in Guilds \ {svc.guild} :
           states[h].present /\ states[h].queue # <<>> /\ states[h].current_song # None

\* cleanup_guild has just dropped a guild's state: the state is gone, the
\* queue key is deleted, the settings key is as it was, and the state the
\* next get_state builds has no queue, no current song and no votes.
CleanedUp ==
    LET g == svc.guild
        s == get_state(states, db, g)[g]
    IN  /\ ~states[g].present
        /\ db.client => ~db.queue[g].key
        /\ db.settings[g] = svc.predb.settings[g]
        /\ s.queue = <<>> /\ s.current_song = None /\ s.vote_skip_users = {}

\* ... and that state has the volume, loop mode and filter the dropped one had.
SettingsSurvive ==
    LET g == svc.guild
        s == get_state(states, db, g)[g]
        b == svc.before[g]
    IN  s.volume = b.volume /\ s.loop_mode = b.loop_mode /\ s.audio_filter = b.audio_filter

\* C21 as stated: after cleanup_guild the next get_state yields an empty
\* queue, no current song, no votes, and the volume, loop mode and filter
\* the guild had before the cleanup.
C21_CleanupKeepsSettings ==
    (svc.op = "cleanup" /\ svc.before[svc.guild].present) => (CleanedUp /\ SettingsSurvive)

\* C21 with Redis connected: after cleanup_guild the state and the queue key
\* are gone and the settings key is kept; the next get_state yields an empty
\* queue, no current song, no votes, and the volume, loop mode and filter
\* the guild had before the cleanup.
C21_CleanupKeepsStoredSettings ==
    (svc.op = "cleanup" /\ svc.before[svc.guild].present) =>
        (CleanedUp /\ (db.client => SettingsSurvive))

C21_Witness ==
    /\ svc.op = "cleanup" /\ db.client
    /\ svc.before[svc.guild].present
    /\ svc.before[svc.guild].volume # DefaultVolume
    /\ svc.before[svc.guild].queue # <<>>
    /\ svc.predb.queue[svc.guild].key

C24_AddAppends ==
    LET g == svc.guild
    IN  /\ svc.op = "add" =>
               /\ states[g].queue = svc.pre.queue \o <<svc.song>>
               /\ svc.a = Len(states[g].queue)
               /\ states[g] = [svc.pre EXCEPT !.queue = states[g].queue]
        /\ svc.op = "add_many" =>
               /\ \E songs \in SvcBatches :
                      states[g].queue = svc.pre.queue \o songs /\ svc.a = Len(songs)
               /\ states[g] = [svc.pre EXCEPT !.queue = states[g].queue]

C24_Witness ==
    /\ svc.op = "add" /\ svc.a = 2
    /\ svc.pre.queue # <<>> /\ svc.pre.queue[1] # svc.song
    /\ svc.pre.current_song # None

\* off -> song -> queue -> off
NextMode(mode) ==
    CASE mode = "off" -> "song"
      [] mode = "song" -> "queue"
      [] mode = "queue" -> "off"

\* C25: cycling the loop mode moves off to song, song to queue and queue to
\* off, the new mode is written to the settings in Redis, three cycles from
\* any mode come back to it, and the loop mode of every guild, in memory and
\* in Redis, is always one of off, song and queue.
C25_LoopModeCycles ==
    /\ \A g \in Guilds :
           /\ states[g].loop_mode \in {"off", "song", "queue"}
           /\ db.settings[g].loop_mode \in {"off", "song", "queue"}
           /\ cycle_loop_mode(cycle_loop_mode(cycle_loop_mode(states[g].loop_mode)))
                  = states[g].loop_mode
    /\ svc.op = "set_loop_mode" =>
           /\ states[svc.guild].loop_mode = NextMode(svc.pre.loop_mode)
           /\ db.client => db.settings[svc.guild].loop_mode = states[svc.guild].loop_mode
           /\ states[svc.guild] = [svc.pre EXCEPT !.loop_mode = states[svc.guild].loop_mode]

C25_Witness ==
    /\ svc.op = "set_loop_mode" /\ db.client
    /\ svc.pre.loop_mode = "queue" /\ states[svc.guild].loop_mode = "off"
    /\ svc.predb.settings[svc.guild].loop_mode = "queue"

\* How many times a song is in a queue.
Count(q, song) == Cardinality({i \in 1..Len(q) : q[i] = song})

\* C26: shuffle leaves the queue with the songs it had, each as many times
\* as before, leaves the current song, the settings and the rest of the
\* guild's state as they were, and stores the queue in its new order.
C26_ShufflePermutes ==
    svc.op = "shuffle" =>
        LET g == svc.guild
            q == states[g].queue
            p == svc.pre.queue
        IN  /\ Len(q) = Len(p)
            /\ \A i \in 1..Len(p) : Count(q, p[i]) = Count(p, p[i])
            /\ states[g] = [svc.pre EXCEPT !.queue = q]
            /\ db.settings = svc.predb.settings
            /\ db.client =>
                   /\ db.queue[g].key /\ Len(db.queue[g].data) = Len(q)
                   /\ \A i \in 1..Len(q) :
                          db.queue[g].data[i].id = q[i].id /\ db.queue[g].data[i].url = q[i].url

C26_Witness ==
    /\ svc.op = "shuffle" /\ db.client
    /\ Len(svc.pre.queue) = 2 /\ states[svc.guild].queue # svc.pre.queue
    /\ svc.pre.current_song # None

\* What the getter of the setting just set returns, asked for next.
GetAfterSet ==
    LET g == svc.guild
        s == get_state(states, db, g)[g]
    IN  CASE svc.op = "set_247_mode" -> get_247_mode(s, db, g).value
          [] svc.op = "set_autoplay" -> get_autoplay(s, db, g).value
          [] svc.op = "set_request_channel" -> get_request_channel(db, g)
          [] svc.op = "set_volume" -> s.volume
          [] svc.op = "set_loop_mode" -> s.loop_mode
          [] svc.op = "set_filter" -> s.audio_filter

\* The value the setter was given.
ValueSet ==
    CASE svc.op \in {"set_247_mode", "set_autoplay", "set_request_channel"} -> svc.ret
      [] svc.op = "set_volume" -> ClampVolume(svc.a)
      [] svc.op = "set_loop_mode" -> NextMode(svc.pre.loop_mode)
      [] svc.op = "set_filter" -> "nightcore"

Setters ==
    {"set_247_mode", "set_autoplay", "set_request_channel", "set_volume",
     "set_loop_mode", "set_filter"}

\* C22: without a Redis client, the getter of volume, loop mode, filter, 24/7
\* mode, autoplay and request channel returns, right after the setter, the
\* value the setter was given.
C22_MemoryOnlySetThenGet ==
    (~db.client /\ svc.op \in Setters) => GetAfterSet = ValueSet

\* Songs as they come back from Redis: as they were, without the requester.
WithoutRequester(q) ==
    [i \in 1..Len(q) |-> [id |-> q[i].id, url |-> q[i].url, requester |-> ""]]

\* playlist save has stored the current song, if any, and then the queue, as
\* the playlist of that name, returned their number, and left the guild's
\* state as get_state hands it out.
PlaylistSaved ==
    LET g == svc.guild
        live == (IF svc.pre.current_song # None THEN <<svc.pre.current_song>> ELSE <<>>)
                   \o svc.pre.queue
    IN  /\ states = [svc.before EXCEPT ![g] = svc.pre]
        /\ svc.a = Len(live)
        /\ \A n \in PlaylistNames :
               /\ shelf[g][n].songs = live
               /\ db.client =>
                      /\ db.playlists[g][n].key
                      /\ Len(db.playlists[g][n].data) = Len(live)
                      /\ \A i \in 1..Len(live) :
                             /\ db.playlists[g][n].data[i].id = live[i].id
                             /\ db.playlists[g][n].data[i].url = live[i].url

\* load_playlist has returned the songs last saved under the name, in order
\* and without their requesters, and has left every guild's state and Redis
\* as they were.
PlaylistLoaded ==
    LET g == svc.guild
    IN  /\ states = svc.before
        /\ db = svc.predb
        /\ \A n \in PlaylistNames :
               svc.ok /\ svc.ret = WithoutRequester(shelf[g][n].songs)

\* C27 as stated: saving a playlist stores the current song followed by the
\* queue and leaves the live queue alone; loading the name afterwards
\* returns that sequence, whatever has happened to the live queue since, and
\* leaves the live queue alone.
C27_PlaylistRoundTrip ==
    /\ (svc.op = "playlist_save" /\ svc.ok) => PlaylistSaved
    /\ (svc.op = "load_playlist" /\ \E n \in PlaylistNames : shelf[svc.guild][n].saved)
           => PlaylistLoaded

\* C27 with Redis connected at the save and at the load: saving a playlist
\* stores the current song followed by the queue and leaves the live queue
\* alone; loading the name afterwards returns that sequence, whatever has
\* happened to the live queue since, and leaves the live queue alone.
C27_StoredPlaylistRoundTrip ==
    /\ (svc.op = "playlist_save" /\ svc.ok) => PlaylistSaved
    /\ (svc.op = "load_playlist" /\ db.client
           /\ \E n \in PlaylistNames : shelf[svc.guild][n].saved /\ shelf[svc.guild][n].client)
           => PlaylistLoaded
    /\ svc.op = "load_playlist" => (states = svc.before /\ db = svc.predb)

C27_Witness ==
    /\ svc.op = "load_playlist" /\ svc.ok /\ db.client
    /\ \E n \in PlaylistNames :
           /\ shelf[svc.guild][n].saved /\ shelf[svc.guild][n].client
           /\ shelf[svc.guild][n].songs # <<>>
           /\ states[svc.guild].present
           /\ states[svc.guild].queue # shelf[svc.guild][n].songs

\* A step of a handler that runs play_next (the play command, the completion
\* callback, and their resumptions after refresh_url or get_related_songs).
ThroughPlayNext ==
    \/ PlayCmd
    \/ PlayRefreshDone
    \/ CbRun
    \/ CbRefreshDone
    \/ CbRelatedDone
    \/ CbRefresh2Done

\* The step starts a source on the voice client.
Begins == vc # "playing" /\ vc' = "playing"

\* C28, first half: a track that begins playing through play_next begins with
\* an empty vote_skip_users set.
C28_PlayNextResetsVotes ==
    [][(ThroughPlayNext /\ Begins) => vote_skip_users' = {}]_vars

\* C28: whenever a track begins playing through play_next the vote_skip_users
\* set is empty, and the votes held while a source is active were all cast on
\* the track that is current: a vote cast on one track is never counted toward
\* skipping a later one.
C28_VotesStayWithTrack ==
    (Active(vc) /\ current_song # None /\ vote_skip_users # {})
        => votes_cast_on \subseteq {current_song.id}

\* C29: with loop mode "song", a skip command that is forced (privileged, or
\* the vote that passes) on the current song C stops the source and leaves its
\* completion callback waiting, with C current and the queue as it was; the
\* play_next of that callback (no callback of an earlier seek waiting before
\* it) takes C again, leaves the queue as it was and, unless building the
\* source raises, starts C on the voice client.
C29_ForcedSkipReplays ==
    /\ (last.op = "skip" /\ last.ret /\ snap.loop = "song") =>
           /\ vc = "idle" /\ callbacks >= 1
           /\ vote_skip_users = {}
           /\ current_song = snap.current
           /\ queue = snap.queue
    /\ (last.op = "play_next" /\ last.forced /\ snap.loop = "song"
                              /\ ~snap.seeking) =>
           /\ current_song = snap.current
           /\ current_song # None
           /\ queue = snap.queue
           /\ last.out \in {"ok", "fail"}
           /\ last.out = "ok" =>
                  (vc = "playing" /\ song_start_time = <<now>>)

\* C was skipped by force under song loop with a song pending, and C started
\* again.
C29_Witness ==
    /\ last.op = "play_next" /\ last.forced /\ snap.loop = "song"
    /\ last.out = "ok"
    /\ vc = "playing"
    /\ current_song = snap.current
    /\ queue # <<>>

\* apply_filter(f) on an active source stores f.
FilterStored ==
    \A f \in Filters :
        ((\E fail \in BOOLEAN : FilterStep(f, fail)) /\ Active(vc)) => audio_filter' = f

\* The step restarts the source: the old source is stopped, so its completion
\* callback is scheduled.
Restarts == callbacks' = callbacks + 1

\* A restart by apply_filter leaves the queue and the current song (its
\* stream URL apart) alone, with the source playing and the guild marked as
\* seeking.
FilterRestartsSameTrack ==
    /\ ((FilterCmd \/ SeekRefreshDone) /\ Restarts) =>
           (vc' = "playing" /\ seeking' /\ queue' = queue)
    /\ (FilterCmd /\ Restarts) => current_song' = current_song
    /\ (SeekRefreshDone /\ Restarts) => current_song' = Refreshed(cmd.song)

\* The elapsed time now - song_start_time is the same after the restart as
\* before the call.
FilterKeepsElapsed ==
    (FilterCmd /\ Restarts) =>
        now' - song_start_time'[1] = now - song_start_time[1]

\* The position in whole seconds is the same after the restart as before the
\* call.
FilterKeepsSeconds ==
    /\ (FilterCmd /\ Restarts) =>
           get_current_position(song_start_time', now')
               = get_current_position(song_start_time, now)
    /\ (SeekRefreshDone /\ Restarts) =>
           get_current_position(song_start_time', now') = cmd.arg

\* The completion callback of the restart consumes the seeking mark and, to
\* its end, leaves the queue and the current song alone and enqueues nothing.
RestartCompletionKeepsQueue ==
    ((CbRun /\ seeking) \/ (cb.skipped /\ cb' # cb)) =>
        /\ ~seeking'
        /\ queue' = queue
        /\ current_song' = current_song
        /\ nextId' = nextId

\* C30: apply_filter on a guild with an active source stores the filter,
\* restarts the same track with the elapsed time now - song_start_time as it
\* was before the call, leaves the current song and the queue unchanged, and the
\* completion callback of the restart does not advance the queue.
C30_FilterRestartsInPlace ==
    [][/\ FilterStored
       /\ FilterRestartsSameTrack
       /\ FilterKeepsElapsed
       /\ RestartCompletionKeepsQueue]_vars

\* C30, what does hold: the filter is stored, the same track is restarted at
\* the position in whole seconds, and with autoplay disabled the completion
\* callback of the restart leaves the queue alone.
C30_FilterRestartsAtSecond ==
    [][/\ FilterStored
       /\ FilterRestartsSameTrack
       /\ FilterKeepsSeconds
       /\ (CbRun /\ seeking /\ ~autoplay_enabled) =>
              (cb' = IdleCb /\ RestartCompletionKeepsQueue)]_vars

\* C31: a skip command of a privileged user stops the source at once, whatever
\* the listeners and the votes held, and the user is not in vote_skip_users
\* afterwards; a skip command of any other user stops the source only when the
\* votes, the user's included, reach the required count.
C31_PrivilegedSkipsAtOnce ==
    /\ (last.op = "skip" /\ last.out = "forced") =>
           /\ last.ret
           /\ vc = "idle" /\ callbacks >= 1
           /\ last.user \notin vote_skip_users
           /\ current_song = snap.current /\ queue = snap.queue
    /\ (last.op = "skip" /\ last.out \in {"already", "voted", "skipped"}) =>
           /\ Cardinality(snap.votes \cup {last.user}) < last.arg =>
                  (last.out # "skipped" /\ ~last.ret /\ vc = snap.vc)
           /\ last.out = "skipped" => vc = "idle"

\* A privileged user who had voted skips with every listener present and
\* fewer votes than required.
C31_Witness ==
    /\ last.op = "skip" /\ last.out = "forced"
    /\ listeners = MaxListeners
    /\ snap.votes = {last.user}
    /\ Cardinality(snap.votes) < last.arg
    /\ vc = "idle"

\* C32: once the stop command and the completion callback it caused have run,
\* and until a track is enqueued, the queue is empty, there is no current song
\* and no source is playing or paused, whatever the loop mode and the autoplay
\* setting, a refresh_url awaited when stop was issued included.
C32_StopLeavesIdle ==
    (stopped /\ callbacks = 0 /\ cb.pc = "idle") =>
        (queue = <<>> /\ current_song = None /\ ~Active(vc))

\* C33: without Redis the cache never holds more than max_size entries, and a
\* set of a new key into a full cache drops exactly the key least recently
\* used, a get that returned the value and an overwrite counting as uses; no
\* other set drops a key.
C33_BoundedLru ==
    /\ Len(cache) <= MaxSize
    /\ cache_last.op = "set" =>
           /\ cache_last.key \in KeySet(cache)
           /\ cache_last.dropped =
                  IF cache_last.full /\ ~cache_last.had THEN {cache_last.lru} ELSE {}

\* A set of a new key into a full cache dropped the key least recently used,
\* and an entry set at an earlier clock reading is the oldest one kept.
C33_Witness ==
    /\ cache_last.op = "set" /\ cache_last.full /\ ~cache_last.had
    /\ cache_last.dropped = {cache_last.lru}
    /\ Len(cache) = MaxSize
    /\ cache_last.born[cache[1].key][1].at < now
    /\ cache_last.key = 1

\* C34: without Redis a get returns the value of the last set of its key, and
\* only up to ttl seconds after that set when it gave a ttl; every other get
\* is a miss that returns None, and the get of an expired entry removes it.
\* cleanup_expired leaves no expired entry.
C34_NoExpiredValue ==
    /\ cache_last.op = "get" =>
           /\ cache_last.miss <=> cache_last.ret = <<>>
           /\ ~cache_last.had => cache_last.miss
           /\ cache_last.miss => cache_last.key \notin KeySet(cache)
           /\ ~cache_last.miss =>
                  LET b == cache_last.born[cache_last.key]
                  IN  /\ b # <<>>
                      /\ cache_last.ret = <<b[1].value>>
                      /\ b[1].ttl # 0 => now <= b[1].at + b[1].ttl * TicksPerSecond
    /\ cache_last.op = "cleanup_expired" =>
           \A i \in 1..Len(cache) : ~Expired(cache[i], now)

\* The get of an entry whose ttl has elapsed missed and removed it.
C34_Witness ==
    /\ cache_last.op = "get" /\ cache_last.had /\ cache_last.miss
    /\ cache_last.dropped = {cache_last.key}
    /\ cache # <<>>

\* C35: the guild is marked as seeking only while the completion callback of
\* the source that seek stopped is waiting to run, so that no mark is left to
\* swallow the completion of a track that ends by itself; seek and
\* apply_filter on a client without an active source included.
C35_SeekingOnlyWithCallback ==
    seeking => callbacks > 0

\* C36: with loop off, a song that play_next took from the queue is started,
\* or is given up for the songs behind it: after a play_next that found a
\* queued song, the song plays (or its stream URL is being refreshed), or
\* nothing was taken from the queue, or the start failed and no queued song
\* is left to try. This holds also without a voice client and while the client
\* already plays.
C36_PoppedTrackStartsOrIsSkipped ==
    (last.op = "play_next" /\ snap.loop = "off" /\ ~snap.seeking
                           /\ snap.queue # <<>>) =>
        \/ last.out = "ok" /\ vc = "playing" /\ current_song = Head(snap.queue)
        \/ last.out = "suspend"
        \/ queue = snap.queue
        \/ last.out = "fail" /\ queue = <<>>

\* C37: when the first load of a playlist stopped at the cap, the songs given
\* to the queue by the first load and then by the background load are the
\* entries of the playlist that are not hidden, each once and in playlist
\* order, hidden entries among the first ones included.
C37_PlaylistLoadedOnce ==
    (pl.pc = "done" /\ Len(pl.entries) > PlaylistCap) =>
        pl.added = Songs(pl.entries)

\* The guild has no state in memory and no queue stored.
Dropped ==
    /\ ~states[VoiceGuild].present
    /\ db.client => ~db.queue[VoiceGuild].key

\* C38: a disconnect of the bot that it did not ask for drops the guild's
\* state and clears its stored queue: the mark that disconnect() sets is taken
\* by the update of the disconnect that set it, and never by the update of a
\* later disconnect that nobody asked for.
C38_LostConnectionCleansUp ==
    [][(BotLeft /\ Head(voice.events) = "lost" /\ voice.pc = "idle") => Dropped']_vars

\* C39: the position computed from the start time counts only the time the
\* track has been playing: while the client is paused the clock advances and
\* the position stays where the track was paused, which is where apply_filter
\* restarts it.
C39_PausedTimeNotCounted ==
    [][(now' > now /\ vc = "paused" /\ vc' = "paused" /\ song_start_time # <<>>)
          => get_current_position_exact(song_start_time', now')
               = get_current_position_exact(song_start_time, now)]_vars

\* The queue and the current song after n more calls of get_next under loop
\* mode "queue".
RECURSIVE Rotated(_, _, _)
Rotated(q, cur, n) ==
    IF n = 0
    THEN [queue |-> q, current |-> cur]
    ELSE LET g == get_next(q, cur, "queue")
         IN  Rotated(g.queue, g.current, n - 1)

\* C40: under loop mode "queue", with a current song and a non-empty queue,
\* get_next keeps the songs of the current song and the queue together, each
\* as many times as before, and as many further calls as the queue was long
\* (len(queue) + 1 calls in all) bring the current song and the queue back to
\* what they were.
C40_QueueLoopRotates ==
    (last.op = "get_next" /\ snap.loop = "queue" /\ snap.current # None
                          /\ snap.queue # <<>>) =>
        LET before == <<snap.current>> \o snap.queue
            after  == <<current_song>> \o queue
            r      == Rotated(queue, current_song, Len(snap.queue))
        IN  /\ Len(after) = Len(before)
            /\ \A i \in 1..Len(before) : Count(after, before[i]) = Count(before, before[i])
            /\ r.queue = snap.queue
            /\ r.current = snap.current

C40_Witness ==
    /\ last.op = "get_next" /\ snap.loop = "queue"
    /\ snap.current # None /\ Len(snap.queue) = MaxSongs
    /\ snap.current # snap.queue[1]
    /\ current_song = snap.queue[1]
    /\ queue = Append(Tail(snap.queue), snap.current)

====
